---- MODULE Spec2Model ----
(***************************************************************************)
(* A model of vorta's diff result tree:                                    *)
(*   src/src/vorta/views/partials/treemodel.py  FileSystemItem,            *)
(*                                              FileTreeModel              *)
(*   src/src/vorta/views/diff_result.py         DiffTree, DiffData,        *)
(*                                              parse_diff_json,           *)
(*                                              parse_diff_lines,          *)
(*                                              DiffSortProxyModel         *)
(*                                                                         *)
(* A FileSystemItem is a heap object: `nodes` maps an object identity (a   *)
(* natural number, 0 for the root) to the item's attributes.  Python list  *)
(* positions are 0-based; TLA+ sequences are 1-based, so row r of a list   *)
(* is element r + 1 of the sequence that models it.  A Python exception is *)
(* the field exc of the record an operator returns ("" when none was       *)
(* raised); the statements after the raising one are not executed.         *)
(***************************************************************************)
EXTENDS Integers, Sequences, FiniteSets, TLC

VARIABLES
    nodes,      \* the FileSystemItem objects: identity -> attributes
    flattened,  \* FileTreeModel._flattened: a list of identities
    mode,       \* FileTreeModel.mode
    last,       \* the last call made: its arguments, exception and signals
    nOps,       \* the number of calls made
    input,      \* the record / line a single-record parse is applied to
    results,    \* what each parser made of `input`
    proxy       \* the DiffSortProxyModel over the model object

vars == <<nodes, flattened, mode, last, nOps, input, results, proxy>>

-----------------------------------------------------------------------------
(* Bounds of the model.                                                    *)

\* number of operations applied to one model object
MaxOps == 4

\* number of calls made on a model object the parsers feed
MaxCalls == 3

\* number of records of one parse call
MaxBatch == 2

\* largest row handed to index
MaxRow == 2

-----------------------------------------------------------------------------
(* Values.                                                                 *)

\* Python's None as an item's data
None == [isNone |-> TRUE]

\* None for an optional tuple (mode_change, owner_change, modified)
NoTuple == <<>>

\* DiffData(file_type, change_type, size, mode_change, owner_change, modified)
DiffData(file_type, change_type, size, mode_change, owner_change, modified) ==
    [file_type |-> file_type, change_type |-> change_type, size |-> size,
     mode_change |-> mode_change, owner_change |-> owner_change,
     modified |-> modified]

\* the members of ChangeType after alias resolution, by name; "PyNone" is
\* the Python None the parsers leave in change_type when no fact sets it
ChangeTypes == {"NONE", "ADDED", "MODIFIED", "REMOVED"}

FileTypes == {"FILE", "DIRECTORY", "LINK"}

DisplayMode == {"TREE", "SIMPLIFIED_TREE", "FLAT"}

\* DiffTree.columnCount: name, change_type, size
columnCount == 3

\* QModelIndex(): the invalid index
QModelIndex == [valid |-> FALSE, row |-> -1, column |-> -1, ptr |-> -1]

\* QAbstractItemModel.createIndex(row, column, ptr)
createIndex(row, column, ptr) ==
    [valid |-> TRUE, row |-> row, column |-> column, ptr |-> ptr]

\* the identity of FileTreeModel.root
root == 0

\* FileSystemItem(path, data): no children, no parent
FileSystemItem(path, data, subpath) ==
    [path |-> path, data |-> data, children |-> <<>>, subpath |-> subpath,
     parent |-> -1]

\* an identity no live object has
NewId(ns) == CHOOSE i \in 1..(Cardinality(DOMAIN ns) + 1) : i \notin DOMAIN ns

Min(S) == CHOOSE x \in S : \A y \in S : x <= y

\* `x = e` followed by the rest F of the function body
Bind(x, F(_)) == F(x)

\* `r = call()` followed by the rest F of the function body: an exception
\* raised by the call leaves the function, the rest is not executed
Try(r, F(_)) == IF r.exc # "" THEN r ELSE F(r)

\* list.index(x): the 0-based position of the first occurrence, -1 if none
ListIndex(s, x) ==
    LET hits == {k \in 1..Len(s) : s[k] = x}
    IN  IF hits = {} THEN -1 ELSE Min(hits) - 1

\* del s[i] for 0 <= i < len(s)
ListDel(s, i) == SubSeq(s, 1, i) \o SubSeq(s, i + 2, Len(s))

-----------------------------------------------------------------------------
(* FileSystemItem                                                          *)

NoRes == [found |-> FALSE, i |-> -1, child |-> -1]

\* a faulty FileSystemItem.get, which leaves out the comparison of the
\* subpath and returns the first child; used to see that RemoveMissingIsNoOp
\* depends on the lookup
get_first_child(ns, item, subpath) ==
    IF ns[item].children = <<>> THEN NoRes
    ELSE [found |-> TRUE, i |-> 0, child |-> ns[item].children[1]]

\* FileSystemItem.get(subpath): (index, child) of the first child with the
\* given subpath, or None
get(ns, item, subpath) ==
    LET ch == ns[item].children
        hits == {k \in 1..Len(ch) : ns[ch[k]].subpath = subpath}
    IN  IF hits = {} THEN NoRes
        ELSE [found |-> TRUE, i |-> Min(hits) - 1, child |-> ch[Min(hits)]]

\* FileSystemItem.get_subpath(path): reduce(walk, path.parts, self);
\* -1 stands for None
RECURSIVE get_subpath(_, _, _)
get_subpath(ns, fsi, parts) ==
    IF parts = <<>> THEN fsi
    ELSE IF fsi = -1 THEN -1
    ELSE Bind(get(ns, fsi, Head(parts)), LAMBDA res :
            get_subpath(ns, IF res.found THEN res.child ELSE -1, Tail(parts)))

\* a faulty FileSystemItem.add, which does not record the subpath of the
\* child; used to see that TreeIsWellFormed looks at the segments
add_without_subpath(ns, item, child, subpath) ==
    [ns EXCEPT ![child].parent = item,
               ![item].children = Append(@, child)]

\* FileSystemItem.add(child, _subpath, _check=False)
add(ns, item, child, subpath) ==
    [ns EXCEPT ![child].parent = item,
               ![child].subpath = subpath,
               ![item].children = Append(@, child)]

-----------------------------------------------------------------------------
(* FileTreeModel / DiffTree: queries                                       *)

\* the rows of a listener that is not connected
NoView == <<>>

\* the model object as one value: its attributes, the signals emitted and
\* the exception raised by the call in progress; view holds the rows of a
\* listener connected to the signals
Model == [nodes |-> nodes, flattened |-> flattened, mode |-> mode,
          signals |-> <<>>, exc |-> "", ret |-> -1, view |-> NoView]

Raise(m, e) == [m EXCEPT !.exc = e]

\* `index = call()` with a call that returns an index, [exc, idx], followed
\* by the rest F of a method of the model object m
TryIdx(m, r, F(_)) == IF r.exc # "" THEN Raise(m, r.exc) ELSE F(r.idx)

\* FileTreeModel.getItem(path)
getItem(m, path) == get_subpath(m.nodes, root, path)

\* DiffTree._flat_filter(item): item.data and change_type != ChangeType.NONE
_flat_filter(ns, item) ==
    ns[item].data # None /\ ns[item].data.change_type # "NONE"

\* DiffTree._simplify_filter(item)
_simplify_filter(ns, item) ==
    IF ns[item].data = None THEN TRUE
    ELSE IF ns[item].data.change_type = "NONE" THEN TRUE
    ELSE FALSE

\* a faulty loop of index, which also descends into the single child of an
\* item that may not be simplified; used to see that SimplifiedRowsAreCombined
\* depends on _simplify_filter
combine_any(ns, item) ==
    IF Len(ns[item].children) = 1 THEN ns[item].children[1] ELSE item

\* the loop of FileTreeModel.index in SIMPLIFIED_TREE mode:
\* while len(item.children) == 1 and _simplify_filter(item): item = children[0]
RECURSIVE combine(_, _)
combine(ns, item) ==
    IF Len(ns[item].children) = 1 /\ _simplify_filter(ns, item)
    THEN combine(ns, ns[item].children[1])
    ELSE item

\* FileTreeModel.index(row, column, parent): [exc, idx]
index(m, row, column, parent) ==
    IF m.mode = "FLAT"
    THEN IF 0 <= row /\ row < Len(m.flattened)
            /\ 0 <= column /\ column < columnCount
         THEN [exc |-> "", idx |-> createIndex(row, column, m.flattened[row + 1])]
         ELSE [exc |-> "", idx |-> QModelIndex]
    ELSE LET parent_item == IF ~parent.valid THEN root ELSE parent.ptr
             ch == m.nodes[parent_item].children
             n == Len(ch)
         IN  \* item = parent_item.children[row] precedes the range check
             IF row >= n \/ row < -n
             THEN [exc |-> "IndexError", idx |-> QModelIndex]
             ELSE LET first == ch[(IF row < 0 THEN row + n ELSE row) + 1]
                      item == IF m.mode = "SIMPLIFIED_TREE"
                              THEN combine(m.nodes, first) ELSE first
                  IN  IF 0 <= row /\ row < n
                         /\ 0 <= column /\ column < columnCount
                      THEN [exc |-> "", idx |-> createIndex(row, column, item)]
                      ELSE [exc |-> "", idx |-> QModelIndex]

\* FileTreeModel.rowCount(parent)
rowCount(m, parent) ==
    IF parent.column > 0 THEN 0
    ELSE IF m.mode = "FLAT"
    THEN IF ~parent.valid THEN Len(m.flattened) ELSE 0
    ELSE LET parent_item == IF ~parent.valid THEN root ELSE parent.ptr
         IN  Len(m.nodes[parent_item].children)

\* the node under which a listener files the rows of the parent index
ViewKey(ix) == IF ix.valid THEN ix.ptr ELSE root

\* the node index(row, 0, parent) points to, as a listener reads it
RowNode(m, row, parent) ==
    Bind(index(m, row, 0, parent), LAMBDA x :
        IF x.exc # "" \/ ~x.idx.valid THEN -1 ELSE x.idx.ptr)

\* the rows a listener reads under the node P: index(r, 0, P) for
\* r < rowCount(P)
TrueRows(m, P) ==
    Bind(IF P = root THEN QModelIndex ELSE createIndex(0, 0, P), LAMBDA ix :
        [r \in 1..rowCount(m, ix) |-> RowNode(m, r - 1, ix)])

\* the nodes displayed at and below the nodes of S
RECURSIVE ShownFrom(_, _)
ShownFrom(m, S) ==
    LET T == S \cup (UNION {{TrueRows(m, x)[k] : k \in DOMAIN TrueRows(m, x)}
                              : x \in S} \ {-1})
    IN  IF T = S THEN S ELSE ShownFrom(m, T)

\* the rows of a listener that has just read the whole model
ShownView(m) == [x \in ShownFrom(m, {root}) |-> TrueRows(m, x)]

ViewRows(view, P) == IF P \in DOMAIN view THEN view[P] ELSE <<>>

\* a listener applies a signal of the model to its rows: rows inserted under
\* a parent are read when the insertion has ended, and the rows at and below
\* the parent of a layout change are read again
Listen(m, view, sig) ==
    IF sig[1] = "endInsertRows"
    THEN Bind(m.signals[Len(m.signals)], LAMBDA begin :
         Bind(ViewRows(view, ViewKey(begin[2])), LAMBDA old :
         Bind(Min({begin[3], Len(old)}), LAMBDA i :
            (ViewKey(begin[2]) :>
                (SubSeq(old, 1, i) \o <<RowNode(m, begin[3], begin[2])>>
                                  \o SubSeq(old, i + 1, Len(old)))) @@ view)))
    ELSE IF sig[1] = "layoutChanged"
    THEN Bind(ShownFrom(m, {ViewKey(sig[2])}), LAMBDA keys :
            [x \in DOMAIN view \cup keys |->
                IF x \in keys THEN TrueRows(m, x) ELSE view[x]])
    ELSE view

\* a signal is emitted and reaches the listener, if one is connected
Emit(m, sig) ==
    [m EXCEPT !.signals = Append(@, sig),
              !.view = IF DOMAIN @ = {} THEN @ ELSE Listen(m, @, sig)]

\* the reduce of FileTreeModel.indexPath in the tree modes over the parts
\* that are left, from the accumulator (index, i, item).  step returns a
\* 2-tuple when the part has no node: the next step(*t, p) then lacks an
\* argument (TypeError), and after the last part the unpacking into
\* index, i, item fails (ValueError).
RECURSIVE indexPathStep(_, _, _, _, _)
indexPathStep(m, idx, i, item, parts) ==
    IF parts = <<>> THEN [exc |-> "", idx |-> idx]
    ELSE Bind(get(m.nodes, item, Head(parts)), LAMBDA res :
         IF ~res.found
         THEN [exc |-> IF Tail(parts) = <<>> THEN "ValueError" ELSE "TypeError",
               idx |-> QModelIndex]
         ELSE Bind(IF i <= -1 THEN res.i ELSE i, LAMBDA i2 :
              IF m.mode = "SIMPLIFIED_TREE" /\ Len(m.nodes[res.child].children) = 1
                 /\ _simplify_filter(m.nodes, res.child)
              THEN indexPathStep(m, idx, i2, res.child, Tail(parts))
              ELSE Try(index(m, IF m.mode = "SIMPLIFIED_TREE" THEN i2 ELSE res.i, 0, idx),
                       LAMBDA ix : indexPathStep(m, ix.idx, -1, res.child, Tail(parts)))))

\* a faulty indexPath, which looks the path up in the flat list in every
\* mode; used to see that TreeShowsEveryNode depends on the walk down the tree
indexPath_flat(m, path) ==
    LET hits == {k \in 1..Len(m.flattened) : m.nodes[m.flattened[k]].path = path}
    IN  IF hits = {} THEN [exc |-> "", idx |-> QModelIndex]
        ELSE [exc |-> "",
              idx |-> createIndex(Min(hits) - 1, 0, m.flattened[Min(hits)])]

\* FileTreeModel.indexPath(path): [exc, idx]
indexPath(m, path) ==
    IF m.mode = "FLAT"
    THEN LET hits == {k \in 1..Len(m.flattened) : m.nodes[m.flattened[k]].path = path}
         IN  IF hits = {} THEN [exc |-> "", idx |-> QModelIndex]
             ELSE index(m, Min(hits) - 1, 0, QModelIndex)
    ELSE indexPathStep(m, QModelIndex, -1, root, path)

\* the loop of FileTreeModel.parent in SIMPLIFIED_TREE mode:
\*   while len(parent_item.children) == 1 and _simplify_filter(parent_item):
\*       parent_item = parent_item._parent
\*       if parent_item is self.root: break
\* parent_item is -1 for None, whose attribute children does not exist.
\* The result is [exc, item].
RECURSIVE parentWalk(_, _)
parentWalk(ns, parent_item) ==
    IF parent_item = -1 THEN [exc |-> "AttributeError", item |-> -1]
    ELSE IF Len(ns[parent_item].children) = 1 /\ _simplify_filter(ns, parent_item)
    THEN IF ns[parent_item].parent = root
         THEN [exc |-> "", item |-> root]
         ELSE parentWalk(ns, ns[parent_item].parent)
    ELSE [exc |-> "", item |-> parent_item]

\* FileTreeModel.parent(child): [exc, idx]
parentIndex(m, child) ==
    IF ~child.valid THEN [exc |-> "", idx |-> QModelIndex]
    ELSE IF m.mode = "FLAT" THEN [exc |-> "", idx |-> QModelIndex]
    ELSE Bind(IF m.mode = "SIMPLIFIED_TREE"
              THEN parentWalk(m.nodes, m.nodes[child.ptr].parent)
              ELSE [exc |-> "", item |-> m.nodes[child.ptr].parent], LAMBDA w :
         IF w.exc # "" THEN [exc |-> w.exc, idx |-> QModelIndex]
         ELSE IF w.item = root THEN [exc |-> "", idx |-> QModelIndex]
         \* parent_item._parent of None
         ELSE IF w.item = -1 THEN [exc |-> "AttributeError", idx |-> QModelIndex]
         \* row = parent_item._parent.children.index(parent_item)
         ELSE Bind(ListIndex(m.nodes[m.nodes[w.item].parent].children, w.item),
                   LAMBDA row :
              IF row = -1 THEN [exc |-> "ValueError", idx |-> QModelIndex]
              ELSE [exc |-> "", idx |-> createIndex(row, 0, w.item)]))

-----------------------------------------------------------------------------
(* DiffSortProxyModel                                                      *)
(*                                                                         *)
(* The proxy is [folders_on_top, _sort_order, sortColumn, sortOrder]; the  *)
(* last two are the properties QSortFilterProxyModel.sort sets.            *)

SortOrder == {"AscendingOrder", "DescendingOrder"}

\* DiffSortProxyModel.__init__
NewProxy == [folders_on_top |-> FALSE, _sort_order |-> "PyNone",
             sortColumn |-> -1, sortOrder |-> "AscendingOrder"]

\* DiffSortProxyModel.sort(column, order)
sort(px, column, order) ==
    [px EXCEPT !._sort_order = order, !.sortColumn = column, !.sortOrder = order]

\* DiffSortProxyModel.keepFoldersOnTop(value)
keepFoldersOnTop(px, value) ==
    IF value THEN sort([px EXCEPT !.folders_on_top = value],
                       px.sortColumn, px.sortOrder)
    ELSE px

\* str < str for the segments of the paths
StrRank(s) == IF s = "a" THEN 1 ELSE 2

StrLess(s, t) == StrRank(s) < StrRank(t)

\* PurePath < PurePath: the lists of the parts are compared
RECURSIVE PathLess(_, _)
PathLess(p, q) ==
    IF q = <<>> THEN FALSE
    ELSE IF p = <<>> THEN TRUE
    ELSE IF Head(p) = Head(q) THEN PathLess(Tail(p), Tail(q))
    ELSE StrLess(Head(p), Head(q))

\* ChangeType.value
ChangeValue(ct) ==
    IF ct = "NONE" THEN 0 ELSE IF ct = "ADDED" THEN 1
    ELSE IF ct = "MODIFIED" THEN 2 ELSE 3

\* the depth of calls at which the interpreter raises RecursionError
RecursionLimit == 6

\* ChangeType.__lt__(self, other) for two members: [exc, ret]
__lt__(self, other) == [exc |-> "", ret |-> ChangeValue(self) < ChangeValue(other)]

\* ChangeType.__le__(self, other): self.value == other.value or self < other
__le__(self, other) ==
    IF ChangeValue(self) = ChangeValue(other) THEN [exc |-> "", ret |-> TRUE]
    ELSE __lt__(self, other)

\* ChangeType.__gt__(self, other): other < self
__gt__(self, other) == __lt__(other, self)

\* ChangeType.__ge__(self, other): other >= self, which is other.__ge__(self),
\* at the depth of calls `depth`
RECURSIVE __ge__(_, _, _)
__ge__(self, other, depth) ==
    IF depth >= RecursionLimit THEN [exc |-> "RecursionError", ret |-> FALSE]
    ELSE __ge__(other, self, depth + 1)

\* a op b for two members of ChangeType
Compare(op, a, b) ==
    IF op = "<" THEN __lt__(a, b)
    ELSE IF op = "<=" THEN __le__(a, b)
    ELSE IF op = ">" THEN __gt__(a, b)
    ELSE __ge__(a, b, 0)

\* item.path.relative_to(base).parts[0]
RelativeFirst(path, base) ==
    IF Len(base) > Len(path) \/ SubSeq(path, 1, Len(base)) # base
    THEN [exc |-> "ValueError", ret |-> ""]
    ELSE IF Len(base) = Len(path) THEN [exc |-> "IndexError", ret |-> ""]
    ELSE [exc |-> "", ret |-> path[Len(base) + 1]]

\* a faulty choose_data, which takes the change as it is; used to see that
\* ChangeKeyIsReduced looks at the key of a change NONE
choose_data_raw(m, idx) ==
    [exc |-> "", ret |-> m.nodes[idx.ptr].data.change_type]

\* DiffSortProxyModel.choose_data(index): [exc, ret], ret the data chosen
choose_data(m, idx) ==
    IF idx.ptr = -1 THEN [exc |-> "AttributeError", ret |-> ""]
    ELSE IF idx.column = 0
    THEN IF m.mode = "FLAT" THEN [exc |-> "", ret |-> m.nodes[idx.ptr].path]
         ELSE IF m.mode = "SIMPLIFIED_TREE"
         THEN Bind(parentIndex(m, idx), LAMBDA parent :
              IF parent.exc # "" THEN [exc |-> parent.exc, ret |-> ""]
              \* parent.internalPointer() of the invalid index is None
              ELSE IF ~parent.idx.valid THEN [exc |-> "AttributeError", ret |-> ""]
              ELSE RelativeFirst(m.nodes[idx.ptr].path,
                                 m.nodes[parent.idx.ptr].path))
         ELSE [exc |-> "", ret |-> m.nodes[idx.ptr].subpath]
    ELSE IF m.nodes[idx.ptr].data = None
    THEN [exc |-> "AttributeError", ret |-> ""]
    ELSE IF idx.column = 1
    THEN IF m.nodes[idx.ptr].data.change_type = "NONE"
         THEN [exc |-> "", ret |-> "MODIFIED"]
         ELSE [exc |-> "", ret |-> m.nodes[idx.ptr].data.change_type]
    ELSE [exc |-> "", ret |-> m.nodes[idx.ptr].data.size]

\* data1 < data2 for the data chosen for a column in a mode
DataLess(m, column, data1, data2) ==
    IF column = 0
    THEN IF m.mode = "FLAT" THEN PathLess(data1, data2) ELSE StrLess(data1, data2)
    ELSE IF column = 1 THEN ChangeValue(data1) < ChangeValue(data2)
    ELSE data1 < data2

\* a faulty lessThan, which does not look at the children; used to see that
\* FoldersComeFirst looks at the partitions
lessThan_by_key(m, px, left, right) ==
    Try(choose_data(m, left), LAMBDA data1 :
    Try(choose_data(m, right), LAMBDA data2 :
        [exc |-> "", ret |-> DataLess(m, left.column, data1.ret, data2.ret)]))

\* DiffSortProxyModel.lessThan(left, right): [exc, ret]
lessThan(m, px, left, right) ==
    IF px.folders_on_top /\ (left.ptr = -1 \/ right.ptr = -1)
    THEN [exc |-> "AttributeError", ret |-> FALSE]
    ELSE IF px.folders_on_top
            /\ (Len(m.nodes[left.ptr].children) # 0)
                    # (Len(m.nodes[right.ptr].children) # 0)
    THEN IF px._sort_order = "AscendingOrder"
         THEN [exc |-> "", ret |-> Len(m.nodes[left.ptr].children) # 0]
         ELSE [exc |-> "", ret |-> Len(m.nodes[right.ptr].children) # 0]
    ELSE Try(choose_data(m, left), LAMBDA data1 :
         Try(choose_data(m, right), LAMBDA data2 :
            [exc |-> "", ret |-> DataLess(m, left.column, data1.ret, data2.ret)]))

-----------------------------------------------------------------------------
(* FileTreeModel / DiffTree: insertion                                     *)

SetData(m, item, data) == [m EXCEPT !.nodes[item].data = data]

\* a faulty _merge_data, which leaves out `if not item.data` and overrides
\* the payload of the item; used to see that FirstPayloadWins depends on the
\* test
merge_data_override(m, item, data) ==
    Bind(SetData(m, item, data), LAMBDA m1 :
    TryIdx(m1, indexPath(m1, m1.nodes[item].path), LAMBDA ix :
        Emit(m1, <<"dataChanged", ix>>)))

\* DiffTree._merge_data -> FileTreeModel._merge_data:
\* if not item.data: item.data = data; dataChanged(indexPath(item.path))
_merge_data(m, item, data) ==
    IF m.nodes[item].data = None
    THEN Bind(SetData(m, item, data), LAMBDA m1 :
         TryIdx(m1, indexPath(m1, m1.nodes[item].path), LAMBDA ix :
            Emit(m1, <<"dataChanged", ix>>)))
    ELSE m

\* add_size(parent) of DiffTree._process_child
RECURSIVE add_size(_, _, _)
add_size(m, parent, size) ==
    IF parent = root THEN m
    ELSE IF m.nodes[parent].data = None THEN Raise(m, "Exception")
    ELSE Bind([m EXCEPT !.nodes[parent].data.size = @ + size], LAMBDA m1 :
         TryIdx(m1, indexPath(m1, m1.nodes[parent].path), LAMBDA ix :
         Bind(Emit(m1, <<"dataChanged", ix>>), LAMBDA m2 :
            IF m2.nodes[parent].parent # -1
            THEN add_size(m2, m2.nodes[parent].parent, size)
            ELSE m2)))

\* DiffTree._process_child(child)
_process_child(m, child) ==
    Bind(IF m.nodes[child].data = None
         THEN SetData(m, child,
                      DiffData("DIRECTORY", "NONE", 0, NoTuple, NoTuple, NoTuple))
         ELSE m, LAMBDA m1 :
        IF m1.nodes[child].data.size # 0
        THEN add_size(m1, m1.nodes[child].parent, m1.nodes[child].data.size)
        ELSE m1)

\* the FLAT branch of FileTreeModel._addChild for a new child
addChildFlat(m, item, child, path_part) ==
    Bind(IF _flat_filter(m.nodes, child)
         THEN Emit([Emit(m, <<"beginInsertRows", QModelIndex,
                              Len(m.flattened), Len(m.flattened)>>)
                      EXCEPT !.flattened = Append(@, child)],
                   <<"endInsertRows">>)
         ELSE m, LAMBDA m1 :
        [m1 EXCEPT !.nodes = add(@, item, child, path_part)])

\* a faulty tree branch of _addChild, which puts the new child in front of
\* the flat list; used to see that FlatListAncestorsFirst looks at the order
addChildTree_prepending(m, item, child, path_part) ==
    TryIdx(m, indexPath(m, m.nodes[item].path), LAMBDA ix :
    Try(IF m.mode = "SIMPLIFIED_TREE" /\ Len(m.nodes[item].children) = 1
        THEN TryIdx(m, index(m, 0, 0, ix), LAMBDA from :
             Bind([Emit(m, <<"layoutAboutToBeChanged", ix>>)
                     EXCEPT !.nodes = add(@, item, child, path_part)], LAMBDA m2 :
             TryIdx(m2, index(m2, 0, 0, ix), LAMBDA new_parent_index :
             TryIdx(m2, index(m2, 0, 0, new_parent_index), LAMBDA to :
                Emit(Emit(m2, <<"changePersistentIndexList", from, to>>),
                     <<"layoutChanged", ix>>)))))
        ELSE Emit([Emit(m, <<"beginInsertRows", ix, Len(m.nodes[item].children),
                             Len(m.nodes[item].children)>>)
                     EXCEPT !.nodes = add(@, item, child, path_part)],
                  <<"endInsertRows">>),
        LAMBDA m3 : IF _flat_filter(m3.nodes, child)
                    THEN [m3 EXCEPT !.flattened = <<child>> \o @]
                    ELSE m3))

\* the TREE / SIMPLIFIED_TREE branch of FileTreeModel._addChild for a new child
addChildTree(m, item, child, path_part) ==
    TryIdx(m, indexPath(m, m.nodes[item].path), LAMBDA ix :
    Try(IF m.mode = "SIMPLIFIED_TREE" /\ Len(m.nodes[item].children) = 1
        THEN TryIdx(m, index(m, 0, 0, ix), LAMBDA from :
             Bind([Emit(m, <<"layoutAboutToBeChanged", ix>>)
                     EXCEPT !.nodes = add(@, item, child, path_part)], LAMBDA m2 :
             TryIdx(m2, index(m2, 0, 0, ix), LAMBDA new_parent_index :
             TryIdx(m2, index(m2, 0, 0, new_parent_index), LAMBDA to :
                Emit(Emit(m2, <<"changePersistentIndexList", from, to>>),
                     <<"layoutChanged", ix>>)))))
        ELSE Emit([Emit(m, <<"beginInsertRows", ix, Len(m.nodes[item].children),
                             Len(m.nodes[item].children)>>)
                     EXCEPT !.nodes = add(@, item, child, path_part)],
                  <<"endInsertRows">>),
        LAMBDA m3 : IF _flat_filter(m3.nodes, child)
                    THEN [m3 EXCEPT !.flattened = Append(@, child)]
                    ELSE m3))

\* a faulty _addChild, which leaves out item.get(path_part) and makes a new
\* child even where one exists; used to see that ReAddWithoutPayloadIsNoOp
\* depends on the lookup
addChild_without_get(m, item, path, path_part, data) ==
    Bind(NewId(m.nodes), LAMBDA child :
    Bind([m EXCEPT !.nodes = (child :> FileSystemItem(path, data, "")) @@ @],
         LAMBDA m0 :
    Try(IF m0.mode = "FLAT"
        THEN addChildFlat(m0, item, child, path_part)
        ELSE addChildTree(m0, item, child, path_part), LAMBDA m1 :
       [_process_child(m1, child) EXCEPT !.ret = child])))

\* FileTreeModel._addChild(item, path, path_part, data); the child is .ret
_addChild(m, item, path, path_part, data) ==
    Bind(get(m.nodes, item, path_part), LAMBDA res :
    IF res.found
    THEN [_merge_data(m, res.child, data) EXCEPT !.ret = res.child]
    ELSE Bind(NewId(m.nodes), LAMBDA child :
         \* DiffTree._make_filesystemitem(path, data)
         Bind([m EXCEPT !.nodes = (child :> FileSystemItem(path, data, "")) @@ @],
              LAMBDA m0 :
         Try(IF m0.mode = "FLAT"
             THEN addChildFlat(m0, item, child, path_part)
             ELSE addChildTree(m0, item, child, path_part), LAMBDA m1 :
            [_process_child(m1, child) EXCEPT !.ret = child]))))

\* the reduce of FileTreeModel.addItem over pparts[:-1] from part k on, then
\* the final _addChild(fsi, path, pparts[-1], data)
RECURSIVE addItemFrom(_, _, _, _, _)
addItemFrom(m, fsi, path, k, data) ==
    IF k = Len(path) THEN _addChild(m, fsi, path, path[k], data)
    ELSE Try(_addChild(m, fsi, SubSeq(path, 1, k), path[k], None), LAMBDA m1 :
            addItemFrom(m1, m1.ret, path, k + 1, data))

\* FileTreeModel.addItem((path, data)), path.parts not empty
addItem(m, path, data) == addItemFrom(m, root, path, 1, data)

-----------------------------------------------------------------------------
(* FileTreeModel: removal and mode                                         *)

\* the loop over item.children of the FLAT branch of removeItem
RECURSIVE removeChildrenFlat(_, _)
removeChildrenFlat(m, children) ==
    IF children = <<>> THEN m
    ELSE Bind(ListIndex(m.flattened, Head(children)), LAMBDA fci :
         IF fci = -1 THEN Raise(m, "ValueError")
         ELSE removeChildrenFlat(
                Emit([Emit(m, <<"beginRemoveRows", QModelIndex, fci, fci>>)
                        EXCEPT !.flattened = ListDel(@, fci)],
                     <<"endRemoveRows">>),
                Tail(children)))

\* the loop over item.children of the tree branch: _flattened.remove(child)
RECURSIVE removeChildrenTree(_, _)
removeChildrenTree(m, children) ==
    IF children = <<>> THEN m
    ELSE Bind(ListIndex(m.flattened, Head(children)), LAMBDA fci :
         IF fci = -1 THEN Raise(m, "ValueError")
         ELSE removeChildrenTree([m EXCEPT !.flattened = ListDel(@, fci)],
                                 Tail(children)))

\* parent.remove(i); del self._flattened[fi]
removeNode(m, parent, i, fi) ==
    Bind([m EXCEPT !.nodes[parent].children = ListDel(@, i)], LAMBDA m1 :
        IF fi >= Len(m1.flattened) THEN Raise(m1, "IndexError")
        ELSE [m1 EXCEPT !.flattened = ListDel(@, fi)])

\* a faulty removeItem, whose FLAT branch leaves the rows of the children in
\* the flat list; used to see that RemoveItemIgnoresMode compares the modes
removeItem_flat_keeping_children(m, path) ==
    Bind(getItem(m, SubSeq(path, 1, Len(path) - 1)), LAMBDA parent :
    IF parent = -1 THEN m
    ELSE Bind(get(m.nodes, parent, path[Len(path)]), LAMBDA res :
    IF ~res.found THEN m
    ELSE Bind(ListIndex(m.flattened, res.child), LAMBDA fi :
    IF fi = -1 THEN Raise(m, "ValueError")
    ELSE IF m.mode = "FLAT"
    THEN Try(removeNode(Emit(m, <<"beginRemoveRows", QModelIndex, fi, fi>>),
                        parent, res.i, fi), LAMBDA m2 :
            Emit(m2, <<"endRemoveRows">>))
    ELSE TryIdx(m, indexPath(m, SubSeq(path, 1, Len(path) - 1)), LAMBDA parent_index :
         Try(removeChildrenTree(
                Emit(m, <<"beginRemoveRows", parent_index, res.i, res.i>>),
                m.nodes[res.child].children), LAMBDA m1 :
         Try(removeNode(m1, parent, res.i, fi), LAMBDA m2 :
            Emit(m2, <<"endRemoveRows">>)))))))

\* FileTreeModel.removeItem(path)
removeItem(m, path) ==
    Bind(getItem(m, SubSeq(path, 1, Len(path) - 1)), LAMBDA parent :
    IF parent = -1 THEN m
    ELSE Bind(get(m.nodes, parent, path[Len(path)]), LAMBDA res :
    IF ~res.found THEN m
    ELSE Bind(ListIndex(m.flattened, res.child), LAMBDA fi :
    IF fi = -1 THEN Raise(m, "ValueError")
    ELSE IF m.mode = "FLAT"
    THEN Try(removeChildrenFlat(m, m.nodes[res.child].children), LAMBDA m1 :
         Try(removeNode(Emit(m1, <<"beginRemoveRows", QModelIndex, fi, fi>>),
                        parent, res.i, fi), LAMBDA m2 :
            Emit(m2, <<"endRemoveRows">>)))
    ELSE TryIdx(m, indexPath(m, SubSeq(path, 1, Len(path) - 1)), LAMBDA parent_index :
         Try(removeChildrenTree(
                Emit(m, <<"beginRemoveRows", parent_index, res.i, res.i>>),
                m.nodes[res.child].children), LAMBDA m1 :
         Try(removeNode(m1, parent, res.i, fi), LAMBDA m2 :
            Emit(m2, <<"endRemoveRows">>)))))))

\* a faulty setMode, which drops the flat list when the mode changes; used
\* to see that SetModeChangesOnlyMode looks at the flat list
setMode_dropping_flattened(m, value) ==
    IF value = m.mode THEN m
    ELSE Emit([Emit(m, <<"beginResetModel">>)
                 EXCEPT !.mode = value, !.flattened = <<>>],
              <<"endResetModel">>)

\* FileTreeModel.setMode(value)
setMode(m, value) ==
    IF value = m.mode THEN m
    ELSE Emit([Emit(m, <<"beginResetModel">>) EXCEPT !.mode = value],
              <<"endResetModel">>)

-----------------------------------------------------------------------------
(* parse_diff_json                                                         *)
(*                                                                         *)
(* A record of the json output is [path, changes]; a change is a record    *)
(* with the keys of the json object ("type" and the keys of that type).    *)

NoPayload == [exc |-> "", file_type |-> "FILE", size |-> 0, change_type |-> "PyNone",
              mode_change |-> NoTuple, owner_change |-> NoTuple, modified |-> NoTuple]

AddedRemovedTypes == {"added", "removed", "added link", "removed link",
                      "added directory", "removed directory"}

\* one pass of the loop `for change in item['changes']`
json_change(acc, change) ==
    IF change = [type |-> "modified"]
    THEN [acc EXCEPT !.change_type = "MODIFIED"]
    ELSE IF change.type = "modified"
    THEN IF {"added", "removed"} \subseteq DOMAIN change
         THEN [acc EXCEPT !.change_type = "MODIFIED",
                          !.size = change.added - change.removed,
                          !.modified = <<change.added, change.removed>>]
         ELSE [acc EXCEPT !.exc = "KeyError"]
    ELSE IF change.type = "changed link"
    THEN [acc EXCEPT !.change_type = "MODIFIED", !.file_type = "LINK"]
    ELSE IF change.type \in AddedRemovedTypes
    THEN LET file_type == IF change.type \in {"added directory", "removed directory"}
                          THEN "DIRECTORY"
                          ELSE IF change.type \in {"added link", "removed link"}
                          THEN "LINK" ELSE acc.file_type
             size == IF "size" \in DOMAIN change THEN change.size ELSE 0
         IN  IF change.type \in {"added", "added link", "added directory"}
             THEN [acc EXCEPT !.file_type = file_type, !.change_type = "ADDED",
                              !.size = size]
             ELSE [acc EXCEPT !.file_type = file_type, !.change_type = "REMOVED",
                              !.size = -size]
    ELSE IF change.type = "mode"
    THEN [acc EXCEPT !.change_type = "MODIFIED",
                     !.mode_change = <<change.old_mode, change.new_mode>>]
    ELSE IF change.type = "owner"
    THEN [acc EXCEPT !.change_type = "MODIFIED",
                     !.owner_change = <<change.old_user, change.old_group,
                                        change.new_user, change.new_group>>]
    ELSE [acc EXCEPT !.exc = "Exception"]

RECURSIVE json_changes(_, _)
json_changes(acc, changes) ==
    IF changes = <<>> \/ acc.exc # "" THEN acc
    ELSE json_changes(json_change(acc, Head(changes)), Tail(changes))

PayloadData(acc) ==
    DiffData(acc.file_type, acc.change_type, acc.size, acc.mode_change,
             acc.owner_change, acc.modified)

\* the body of the loop of parse_diff_json for one record: the (path, data)
\* handed to model.addItem, or the exception raised before
json_item(item) ==
    Bind(json_changes(NoPayload, item.changes), LAMBDA acc :
        [exc |-> acc.exc, path |-> item.path, data |-> PayloadData(acc)])

\* parse_diff_json(diffs, model)
RECURSIVE parse_diff_json(_, _)
parse_diff_json(diffs, m) ==
    IF diffs = <<>> THEN m
    ELSE Bind(json_item(Head(diffs)), LAMBDA it :
         IF it.exc # "" THEN Raise(m, it.exc)
         ELSE Try(addItem(m, it.path, it.data), LAMBDA m1 :
                 parse_diff_json(Tail(diffs), m1)))

-----------------------------------------------------------------------------
(* parse_diff_lines                                                        *)
(*                                                                         *)
(* A line of the textual output is the record of its clauses in the order  *)
(* borg prints them: [ar, ar_type, size, cl, modified, owner, mode, path]. *)
(*   ar        "added", "removed" or "" (no such clause)                   *)
(*   ar_type   "directory", "link" or "size" (a size literal follows)      *)
(*   size      <<significand, unit>> of the size literal                   *)
(*   cl        the line carries "changed link"                             *)
(*   modified  <<>> or <<added, added_unit, removed, removed_unit>>        *)
(*   owner     <<>> or <<old_user, old_group, new_user, new_group>>        *)
(*   mode      <<>> or <<old_mode, new_mode>>                              *)
(*   path      the parts of the path that ends the line                    *)
(* A significand is [m, e]: the decimal literal m / 10^e written with e    *)
(* digits after the point (e = 0: no point).  The clauses of a line are    *)
(* separated by one blank; the size of an added or removed file, which     *)
(* borg aligns to the right, is set off by two, the least pattern_ar takes *)
(* (`(added|removed) ` and then `\s+`).  NoLine is the empty line.          *)

\* the empty line
NoLine == [ar |-> "", ar_type |-> "", size |-> <<>>, cl |-> FALSE,
           modified |-> <<>>, owner |-> <<>>, mode |-> <<>>, path |-> <<>>]

SigText(sig) ==
    IF sig.e = 0 THEN ToString(sig.m)
    ELSE ToString(sig.m \div 10) \o "." \o ToString(sig.m % 10)

SizeText(size) == SigText(size[1]) \o " " \o size[2]

ArText(line) ==
    line.ar \o " " \o (IF line.ar_type = "size" THEN " " \o SizeText(line.size)
                       ELSE line.ar_type)

ModifiedText(t) == "+" \o SigText(t[1]) \o " " \o t[2] \o " -" \o SigText(t[3]) \o " " \o t[4]

OwnerText(t) == "[" \o t[1] \o ":" \o t[2] \o " -> " \o t[3] \o ":" \o t[4] \o "]"

ModeText(t) == "[" \o t[1] \o " -> " \o t[2] \o "]"

\* the text of the clauses named in `which`, in the order of the line
ClausesText(line, which) ==
    (IF "ar" \in which /\ line.ar # "" THEN ArText(line) \o " " ELSE "")
        \o (IF "cl" \in which /\ line.cl THEN "changed link " ELSE "")
        \o (IF "modified" \in which /\ line.modified # <<>>
            THEN ModifiedText(line.modified) \o " " ELSE "")
        \o (IF "owner" \in which /\ line.owner # <<>>
            THEN OwnerText(line.owner) \o " " ELSE "")
        \o (IF "mode" \in which /\ line.mode # <<>>
            THEN ModeText(line.mode) \o " " ELSE "")

\* PurePath(text).parts when text is `prefix` followed by the path
PathAfter(prefix, path) == <<prefix \o path[1]>> \o Tail(path)

NoGroups == [a_r |-> "", ar_type |-> "", size |-> <<>>, cl |-> "",
             modified |-> <<>>, owner |-> <<>>, mode |-> <<>>, path |-> <<>>]

\* the parts of a path that hold a line break
LineBreakParts == {"a\nb"}

\* a faulty re_changed_file.fullmatch, for which `.` matches a line break
\* too; used to see that UnmatchedLineRaises looks at the unmatched lines
fullmatch_dotall(line) ==
    [NoGroups EXCEPT
        !.path = PathAfter(ClausesText(line, {"ar", "cl", "modified", "owner", "mode"}),
                           line.path)]

\* re_changed_file.fullmatch(line): the groups of the match, or None.  The
\* three alternatives are tried in order, and pattern_path (.*) takes the
\* rest of the line, so every line without a line break matches:
\*   1 pattern_ar  (added|removed) (directory|link|\s+(\d+) (\w+)): a size
\*     literal must be digits only and follow ar after two blanks at least;
\*     the group ar_type holds "directory", "link" or the blanks after the
\*     first and the size literal
\*   2 pattern_cl  changed link
\*   3 the optional groups modified, owner and mode, in this order
fullmatch(line) ==
    IF \E k \in 1..Len(line.path) : line.path[k] \in LineBreakParts
    THEN None
    ELSE
    IF line.ar # "" /\ (line.ar_type \in {"directory", "link"}
                        \/ (line.ar_type = "size" /\ line.size[1].e = 0))
    THEN [NoGroups EXCEPT
            !.a_r = line.ar,
            !.ar_type = IF line.ar_type = "size"
                        THEN " " \o SizeText(line.size) ELSE line.ar_type,
            !.size = IF line.ar_type = "size" THEN line.size ELSE <<>>,
            !.path = PathAfter(ClausesText(line, {"cl", "modified", "owner", "mode"}),
                               line.path)]
    ELSE IF line.ar # ""
    THEN [NoGroups EXCEPT
            !.path = PathAfter(ClausesText(line, {"ar", "cl", "modified", "owner", "mode"}),
                               line.path)]
    ELSE IF line.cl
    THEN [NoGroups EXCEPT
            !.cl = "changed link ",
            !.path = PathAfter(ClausesText(line, {"modified", "owner", "mode"}),
                               line.path)]
    ELSE [NoGroups EXCEPT
            !.modified = line.modified,
            !.owner = line.owner,
            !.mode = line.mode,
            !.path = line.path]

\* the (m, e, k) for which int(float("m/10^e") * 10**k) is one less than
\* m * 10^k / 10^e (binary floating point), among the significands below
\* 1000 with at most one digit after the point and a result below 2^31
FloatLoss ==
    {<<m, 1, 3>> : m \in {323, 641, 646, 651}}
    \cup {<<m, 1, 6>> : m \in {41, 82, 164, 323, 328, 333, 641, 646, 651,
                                656, 661, 666, 671}}

\* int(float(significand) * 10**k)
FloatTimes(sig, k) ==
    IF sig.m = 0 THEN 0
    ELSE LET exact == IF k >= sig.e THEN sig.m * 10^(k - sig.e)
                      ELSE sig.m \div 10^(sig.e - k)
         IN  IF <<sig.m, sig.e, k>> \in FloatLoss THEN exact - 1 ELSE exact

\* size_to_byte(significand, unit): [exc, bytes]
size_to_byte(significand, unit) ==
    IF unit = "B"
    THEN IF significand.e = 0 THEN [exc |-> "", bytes |-> significand.m]
         ELSE [exc |-> "ValueError", bytes |-> 0]
    ELSE IF unit = "kB" \/ unit = "KB"
    THEN [exc |-> "", bytes |-> FloatTimes(significand, 3)]
    ELSE IF unit = "MB"
    THEN [exc |-> "", bytes |-> FloatTimes(significand, 6)]
    ELSE IF unit = "GB"
    THEN [exc |-> "", bytes |-> FloatTimes(significand, 9)]
    ELSE IF unit = "TB"
    THEN [exc |-> "", bytes |-> FloatTimes(significand, 12)]
    ELSE [exc |-> "Exception", bytes |-> 0]

\* the body of the loop of parse_diff_lines for one line: the (path, data)
\* handed to model.addItem, or the exception raised before
line_item(line) ==
    Bind(fullmatch(line), LAMBDA parsed_line :
    IF parsed_line = None
    THEN [exc |-> "Exception", path |-> <<>>, data |-> None]
    ELSE IF parsed_line.a_r # ""
    THEN \* added or removed
         Bind(IF parsed_line.ar_type # ""
              THEN [exc |-> "", bytes |-> 0]
              ELSE size_to_byte(parsed_line.size[1], parsed_line.size[2]), LAMBDA sz :
         Bind(IF parsed_line.ar_type = "directory" THEN "DIRECTORY"
              ELSE IF parsed_line.ar_type = "link" THEN "LINK"
              ELSE "FILE", LAMBDA file_type :
            [exc |-> sz.exc, path |-> parsed_line.path,
             data |-> IF parsed_line.a_r = "added"
                      THEN DiffData(file_type, "ADDED", sz.bytes,
                                    NoTuple, NoTuple, NoTuple)
                      ELSE DiffData(file_type, "REMOVED", -sz.bytes,
                                    NoTuple, NoTuple, NoTuple)]))
    ELSE IF parsed_line.cl # ""
    THEN [exc |-> "", path |-> parsed_line.path,
          data |-> DiffData("LINK", "MODIFIED", 0, NoTuple,
                            parsed_line.owner, NoTuple)]
    ELSE IF parsed_line.modified = <<>>
    THEN [exc |-> "", path |-> parsed_line.path,
          data |-> DiffData("FILE", "MODIFIED", 0, parsed_line.mode,
                            parsed_line.owner, NoTuple)]
    ELSE Bind(parsed_line.modified, LAMBDA t :
         Try(size_to_byte(t[1], t[2]), LAMBDA a :
         Try(size_to_byte(t[3], t[4]), LAMBDA r :
            [exc |-> "", path |-> parsed_line.path,
             data |-> DiffData("FILE", "MODIFIED", a.bytes - r.bytes,
                               parsed_line.mode, parsed_line.owner,
                               <<a.bytes, r.bytes>>)]))))

\* parse_diff_lines(lines, model); an empty line is passed over
RECURSIVE parse_diff_lines(_, _)
parse_diff_lines(lines, m) ==
    IF lines = <<>> THEN m
    ELSE IF Head(lines) = NoLine THEN parse_diff_lines(Tail(lines), m)
    ELSE Bind(line_item(Head(lines)), LAMBDA it :
         IF it.exc # "" THEN Raise(m, it.exc)
         ELSE Try(addItem(m, it.path, it.data), LAMBDA m1 :
                 parse_diff_lines(Tail(lines), m1)))

-----------------------------------------------------------------------------
(* Object lifetime: an item lives while it can be reached from the model,  *)
(* that is from root or from _flattened, through children and _parent.     *)

RECURSIVE Reach(_, _)
Reach(ns, S) ==
    LET T == S \cup UNION {{ns[x].children[k] : k \in 1..Len(ns[x].children)} : x \in S}
                \cup ({ns[x].parent : x \in S} \ {-1})
    IN  IF T = S THEN S ELSE Reach(ns, T)

Collect(m) ==
    LET live == Reach(m.nodes, {root} \cup {m.flattened[k] : k \in 1..Len(m.flattened)})
    IN  [m EXCEPT !.nodes = [x \in live |-> m.nodes[x]]]

-----------------------------------------------------------------------------
(* The inputs of the model.                                                *)

\* the paths handed to addItem / removeItem / indexPath, as PurePath.parts
Paths == {<<"a">>, <<"b">>, <<"a", "a">>, <<"a", "b">>, <<"a", "a", "a">>}

\* the payloads handed to addItem
Payloads == {None,
             DiffData("FILE", "ADDED", 1, NoTuple, NoTuple, NoTuple),
             DiffData("DIRECTORY", "REMOVED", 0, NoTuple, NoTuple, NoTuple)}

\* the rows and columns handed to index
Rows == -1..MaxRow

Columns == {0, 1}

\* the parent indexes a view can hand to index / rowCount: the invalid index
\* and the indexes the model gave out for the paths
ParentIndexes(m) ==
    {QModelIndex} \cup {indexPath(m, p).idx : p \in {q \in Paths : indexPath(m, q).exc = ""}}

\* the records of a json diff
JsonRecords ==
    {[path |-> <<"a">>, changes |-> <<[type |-> "removed directory"]>>],
     [path |-> <<"a", "b">>, changes |-> <<[type |-> "added", size |-> 20]>>],
     [path |-> <<"b">>, changes |-> <<[type |-> "bogus"]>>]}

\* the lines of a textual diff:
\*   "removed directory   a"
\*   "     +5 B      -7 B a/b"
\*   "    +1 XB      -1 B b"
DiffLines ==
    {[NoLine EXCEPT !.ar = "removed", !.ar_type = "directory", !.path = <<"a">>],
     [NoLine EXCEPT !.modified = <<[m |-> 5, e |-> 0], "B", [m |-> 7, e |-> 0], "B">>,
                    !.path = <<"a", "b">>],
     [NoLine EXCEPT !.modified = <<[m |-> 1, e |-> 0], "XB", [m |-> 1, e |-> 0], "B">>,
                    !.path = <<"b">>]}

\* the batches of at most MaxBatch records
Batches(S) == UNION {[1..n -> S] : n \in 1..MaxBatch}

-----------------------------------------------------------------------------
(* The state machine of one model object.                                  *)

\* the items reached from item x through children
RECURSIVE TreeItems(_, _)
TreeItems(ns, x) ==
    {x} \cup UNION {TreeItems(ns, ns[x].children[k]) : k \in 1..Len(ns[x].children)}

\* the tree of the model object holds an item for the path
HasNode(path) == \E x \in TreeItems(nodes, root) : nodes[x].path = path

\* the rows of the flat list: (path, data) of the items of _flattened
FlatRows(ns, fl) == [k \in 1..Len(fl) |-> <<ns[fl[k]].path, ns[fl[k]].data>>]

NoCall == [op |-> "init", path |-> <<>>, data |-> None, value |-> "",
           found |-> FALSE, exc |-> "", signals |-> <<>>, ret |-> QModelIndex]

\* the end of a call that may change the model object.  found tells whether
\* the path had a node when the call was made.
Done(m, op, path, data, value) ==
    LET r == Collect(m)
    IN  /\ nodes' = r.nodes
        /\ flattened' = r.flattened
        /\ mode' = r.mode
        /\ last' = [NoCall EXCEPT !.op = op, !.path = path, !.data = data,
                                  !.value = value,
                                  !.found = HasNode(path),
                                  !.exc = r.exc, !.signals = r.signals]
        /\ nOps' = nOps + 1
        /\ UNCHANGED proxy

\* the end of a query: res is [exc, idx]
Returned(res, op, path, value) ==
    /\ last' = [NoCall EXCEPT !.op = op, !.path = path, !.value = value,
                              !.found = HasNode(path),
                              !.exc = res.exc, !.ret = res.idx]
    /\ nOps' = nOps + 1
    /\ UNCHANGED <<nodes, flattened, mode, proxy>>

\* DiffTree(): FileTreeModel.__init__
NewModel == [nodes |-> (root :> FileSystemItem(<<>>, None, "")),
             flattened |-> <<>>, mode |-> "TREE",
             signals |-> <<>>, exc |-> "", ret |-> -1, view |-> NoView]

Init ==
    /\ nodes = NewModel.nodes
    /\ flattened = NewModel.flattened
    /\ mode = NewModel.mode
    /\ last = NoCall
    /\ nOps = 0
    /\ input = <<>>
    /\ results = <<>>
    /\ proxy = NewProxy

AddItem(path, data) ==
    /\ nOps < MaxOps
    /\ Done(addItem(Model, path, data), "addItem", path, data, "")
    /\ UNCHANGED <<input, results>>

RemoveItem(path) ==
    /\ nOps < MaxOps
    /\ Done(removeItem(Model, path), "removeItem", path, None, "")
    /\ UNCHANGED <<input, results>>

SetMode(value) ==
    /\ nOps < MaxOps
    /\ Done(setMode(Model, value), "setMode", <<>>, None, value)
    /\ UNCHANGED <<input, results>>

Next ==
    \/ \E path \in Paths, data \in Payloads : AddItem(path, data)
    \/ \E path \in Paths : RemoveItem(path)
    \/ \E value \in DisplayMode : SetMode(value)

Spec == Init /\ [][Next]_vars

\* a DiffTree that is only added to
NextAdd == \E path \in Paths, data \in Payloads : AddItem(path, data)

SpecAdd == Init /\ [][NextAdd]_vars

-----------------------------------------------------------------------------
(* The model object with a view that queries it.                           *)

IndexPath(path) ==
    /\ nOps < MaxOps
    /\ Returned(indexPath(Model, path), "indexPath", path, "")
    /\ UNCHANGED <<input, results>>

Index(row, column, parent) ==
    /\ nOps < MaxOps
    /\ Returned(index(Model, row, column, parent), "index", <<>>,
                [row |-> row, column |-> column, parent |-> parent])
    /\ UNCHANGED <<input, results>>

NextQuery ==
    \/ \E path \in Paths, data \in Payloads : AddItem(path, data)
    \/ \E path \in Paths : RemoveItem(path)
    \/ \E value \in DisplayMode : SetMode(value)
    \/ \E path \in Paths : IndexPath(path)
    \/ \E row \in Rows, column \in Columns, parent \in ParentIndexes(Model) :
            Index(row, column, parent)

SpecQuery == Init /\ [][NextQuery]_vars

-----------------------------------------------------------------------------
(* The model object behind a view: the tree is filled and shown in the     *)
(* three modes, and the view asks for indexes and their parents.           *)

\* the indexes a view holds: those the model gave out for the rows below
\* the parent indexes, and the invalid index
ViewIndexes(m) ==
    ParentIndexes(m)
    \cup UNION {{index(m, row, column, q).idx :
                    row \in {r \in 0..MaxRow :
                                /\ r < rowCount(m, q)
                                /\ index(m, r, 0, q).exc = ""},
                    column \in Columns} : q \in ParentIndexes(m)}

Parent(child) ==
    /\ nOps < MaxOps
    /\ Returned(parentIndex(Model, child), "parent", <<>>, [child |-> child])
    /\ UNCHANGED <<input, results>>

NextView ==
    \/ \E path \in Paths, data \in Payloads : AddItem(path, data)
    \/ \E value \in DisplayMode : SetMode(value)
    \/ \E path \in Paths : IndexPath(path)
    \/ \E row \in Rows, column \in Columns, parent \in ParentIndexes(Model) :
            Index(row, column, parent)
    \/ \E child \in ViewIndexes(Model) : Parent(child)

SpecView == Init /\ [][NextView]_vars

-----------------------------------------------------------------------------
(* The model object under a DiffSortProxyModel.  The view sorts through    *)
(* the proxy: QSortFilterProxyModel.sort orders the rows below each parent *)
(* by calls of lessThan(left, right) with source indexes of the sort       *)
(* column; for DescendingOrder it puts x before y when lessThan(y, x).     *)

\* the number of calls that change the model object
MaxSortOps == 3

SortPaths == {<<"b">>, <<"a", "a">>, <<"a", "b", "a">>}

SortPayloads == {DiffData("FILE", "ADDED", 1, NoTuple, NoTuple, NoTuple),
                 DiffData("FILE", "MODIFIED", 0, NoTuple, NoTuple, NoTuple),
                 DiffData("FILE", "REMOVED", -1, NoTuple, NoTuple, NoTuple)}

SortColumns == 0..(columnCount - 1)

\* the indexes of the rows a view reaches from the index P with rowCount and
\* index, at any depth
RECURSIVE RowsBelow(_, _)
RowsBelow(m, P) ==
    UNION {{index(m, r, 0, P).idx} \cup RowsBelow(m, index(m, r, 0, P).idx) :
                r \in 0..(rowCount(m, P) - 1)}

\* the indexes of column `column` for the rows the view shows
ShownIndexes(m, column) ==
    {[idx EXCEPT !.column = column] : idx \in RowsBelow(m, QModelIndex)}

\* the pairs of indexes of column `column` for two rows below one parent
SiblingPairs(m, column) ==
    UNION {{<<index(m, r[1], column, P).idx, index(m, r[2], column, P).idx>> :
                r \in {t \in (0..(rowCount(m, P) - 1)) \X (0..(rowCount(m, P) - 1)) :
                            t[1] # t[2]}} :
            P \in {QModelIndex} \cup RowsBelow(m, QModelIndex)}

\* the end of a query of the proxy: res is [exc, ret]
Answered(res, op, value) ==
    /\ last' = [NoCall EXCEPT !.op = op, !.value = value,
                              !.exc = res.exc, !.ret = res.ret]
    /\ UNCHANGED <<nodes, flattened, mode, nOps, input, results, proxy>>

SortAddItem(path, data) ==
    /\ nOps < MaxSortOps
    /\ Done(addItem(Model, path, data), "addItem", path, data, "")
    /\ UNCHANGED <<input, results>>

SortSetMode(value) ==
    /\ nOps < MaxSortOps
    /\ Done(setMode(Model, value), "setMode", <<>>, None, value)
    /\ UNCHANGED <<input, results>>

Sort(column, order) ==
    /\ proxy' = sort(proxy, column, order)
    /\ last' = [NoCall EXCEPT !.op = "sort",
                              !.value = [column |-> column, order |-> order],
                              !.signals = << <<"sorted", column, order>> >>]
    /\ UNCHANGED <<nodes, flattened, mode, nOps, input, results>>

KeepFoldersOnTop(value) ==
    /\ proxy' = keepFoldersOnTop(proxy, value)
    /\ last' = [NoCall EXCEPT !.op = "keepFoldersOnTop", !.value = [value |-> value],
                              !.signals = IF value
                                          THEN << <<"sorted", proxy.sortColumn,
                                                    proxy.sortOrder>> >>
                                          ELSE <<>>]
    /\ UNCHANGED <<nodes, flattened, mode, nOps, input, results>>

ChooseData(idx) ==
    Answered(choose_data(Model, idx), "choose_data", [index |-> idx])

LessThan(left, right) ==
    /\ proxy.sortColumn >= 0
    /\ Answered(lessThan(Model, proxy, left, right), "lessThan",
                [left |-> left, right |-> right])

NextSort ==
    \/ \E path \in SortPaths, data \in SortPayloads : SortAddItem(path, data)
    \/ \E value \in DisplayMode : SortSetMode(value)
    \/ \E column \in SortColumns, order \in SortOrder : Sort(column, order)
    \/ \E value \in BOOLEAN : KeepFoldersOnTop(value)
    \/ \E column \in SortColumns : \E idx \in ShownIndexes(Model, column) :
            ChooseData(idx)
    \/ \E pair \in SiblingPairs(Model, proxy.sortColumn) : LessThan(pair[1], pair[2])

SpecSort == Init /\ [][NextSort]_vars

-----------------------------------------------------------------------------
(* The model object over longer runs: the files of one directory chain are  *)
(* added with a change of their own, removed and added again.              *)

MaxChainOps == 6

ChainPaths == {<<"a">>, <<"a", "a">>, <<"a", "a", "a">>}

ChainPayload == DiffData("FILE", "ADDED", 1, NoTuple, NoTuple, NoTuple)

ChainAddItem(path) ==
    /\ nOps < MaxChainOps
    /\ Done(addItem(Model, path, ChainPayload), "addItem", path, ChainPayload, "")
    /\ UNCHANGED <<input, results>>

ChainRemoveItem(path) ==
    /\ nOps < MaxChainOps
    /\ Done(removeItem(Model, path), "removeItem", path, None, "")
    /\ UNCHANGED <<input, results>>

ChainSetMode(value) ==
    /\ nOps < MaxChainOps
    /\ Done(setMode(Model, value), "setMode", <<>>, None, value)
    /\ UNCHANGED <<input, results>>

NextChain ==
    \/ \E path \in ChainPaths : ChainAddItem(path)
    \/ \E path \in ChainPaths : ChainRemoveItem(path)
    \/ \E value \in DisplayMode : ChainSetMode(value)

SpecChain == Init /\ [][NextChain]_vars

-----------------------------------------------------------------------------
(* The model object fed by the parsers.  results is the list of the parse  *)
(* calls made: the parser, its batch, the exception it raised and the flat *)
(* list after the call.                                                    *)

ParseDiffJson(diffs) ==
    /\ nOps < MaxCalls
    /\ Done(parse_diff_json(diffs, Model), "parse_diff_json", <<>>, None, diffs)
    /\ results' = Append(results, [parser |-> "json", batch |-> diffs,
                                   exc |-> last'.exc,
                                   flat |-> FlatRows(nodes', flattened')])
    /\ UNCHANGED input

ParseDiffLines(lines) ==
    /\ nOps < MaxCalls
    /\ Done(parse_diff_lines(lines, Model), "parse_diff_lines", <<>>, None, lines)
    /\ results' = Append(results, [parser |-> "lines", batch |-> lines,
                                   exc |-> last'.exc,
                                   flat |-> FlatRows(nodes', flattened')])
    /\ UNCHANGED input

SetModeParse(value) ==
    /\ nOps < MaxCalls
    /\ Done(setMode(Model, value), "setMode", <<>>, None, value)
    /\ UNCHANGED <<input, results>>

NextParse ==
    \/ \E diffs \in Batches(JsonRecords) : ParseDiffJson(diffs)
    \/ \E lines \in Batches(DiffLines) : ParseDiffLines(lines)
    \/ \E value \in DisplayMode : SetModeParse(value)

SpecParse == Init /\ [][NextParse]_vars

-----------------------------------------------------------------------------
(* One change parsed from both outputs of borg diff, each into a model of  *)
(* its own as the tests do: model = DiffTree(); model.setMode(FLAT);       *)
(* parse([x], model).  input is the change as the line of the textual      *)
(* output; RecordOf gives the record of the json output for it.            *)

\* the last path is that of the line "added directory    dir/b " (a blank
\* ends the line)
PayloadPaths == {<<"a">>, <<"some", "changed", "file">>, <<"dir", "b ">>}

SizeLiterals == {<<[m |-> 0, e |-> 0], "B">>,
                 <<[m |-> 20, e |-> 0], "B">>,
                 <<[m |-> 15, e |-> 1], "kB">>}

ModifiedLiterals == {<<[m |-> 5, e |-> 0], "B", [m |-> 7, e |-> 0], "B">>,
                     <<[m |-> 778, e |-> 1], "kB", [m |-> 778, e |-> 1], "kB">>,
                     <<[m |-> 41, e |-> 1], "MB", [m |-> 0, e |-> 0], "B">>}

OwnerChanges == {<<"user", "user", "nfsnobody", "nfsnobody">>}

ModeChanges == {<<"-rw-rw-rw-", "-rw-r--r--">>}

\* the lines of the three forms of re_changed_file
ChangeLines ==
    {[NoLine EXCEPT !.ar = ar, !.ar_type = t, !.path = p] :
        ar \in {"added", "removed"}, t \in {"directory", "link"}, p \in PayloadPaths}
    \cup {[NoLine EXCEPT !.ar = ar, !.ar_type = "size", !.size = sz, !.path = p] :
        ar \in {"added", "removed"}, sz \in SizeLiterals, p \in PayloadPaths}
    \cup {[NoLine EXCEPT !.cl = TRUE, !.path = p] : p \in PayloadPaths}
    \cup ({[NoLine EXCEPT !.modified = md, !.owner = ow, !.mode = mo, !.path = p] :
            md \in ModifiedLiterals \cup {<<>>}, ow \in OwnerChanges \cup {<<>>},
            mo \in ModeChanges \cup {<<>>}, p \in PayloadPaths}
          \ {[NoLine EXCEPT !.path = p] : p \in PayloadPaths})

\* the power of ten a unit stands for
UnitExponent(unit) ==
    IF unit = "B" THEN 0
    ELSE IF unit \in {"kB", "KB"} THEN 3
    ELSE IF unit = "MB" THEN 6
    ELSE IF unit = "GB" THEN 9
    ELSE 12

\* the number of bytes a size literal stands for
Bytes(sig, unit) == sig.m * 10^(UnitExponent(unit) - sig.e)

\* the record of the json output for the change of a line
RecordOf(line) ==
    [path |-> line.path,
     changes |->
        (IF line.ar = "" THEN <<>>
         ELSE IF line.ar_type = "size"
         THEN <<[type |-> line.ar, size |-> Bytes(line.size[1], line.size[2])]>>
         ELSE <<[type |-> line.ar \o " " \o line.ar_type]>>)
        \o (IF line.cl THEN <<[type |-> "changed link"]>> ELSE <<>>)
        \o (IF line.modified = <<>> THEN <<>>
            ELSE <<[type |-> "modified",
                    added |-> Bytes(line.modified[1], line.modified[2]),
                    removed |-> Bytes(line.modified[3], line.modified[4])]>>)
        \o (IF line.mode = <<>> THEN <<>>
            ELSE <<[type |-> "mode", old_mode |-> line.mode[1],
                    new_mode |-> line.mode[2]]>>)
        \o (IF line.owner = <<>> THEN <<>>
            ELSE <<[type |-> "owner", old_user |-> line.owner[1],
                    old_group |-> line.owner[2], new_user |-> line.owner[3],
                    new_group |-> line.owner[4]]>>)]

Parsed(parser) == \E k \in 1..Len(results) : results[k].parser = parser

InitPayload ==
    /\ nodes = NewModel.nodes
    /\ flattened = NewModel.flattened
    /\ mode = NewModel.mode
    /\ last = NoCall
    /\ nOps = 0
    /\ input \in ChangeLines
    /\ results = <<>>
    /\ proxy = NewProxy

TestJsonParser ==
    /\ ~Parsed("json")
    /\ Done(parse_diff_json(<<RecordOf(input)>>, setMode(NewModel, "FLAT")),
            "parse_diff_json", <<>>, None, <<RecordOf(input)>>)
    /\ results' = Append(results, [parser |-> "json", batch |-> <<RecordOf(input)>>,
                                   exc |-> last'.exc,
                                   flat |-> FlatRows(nodes', flattened')])
    /\ UNCHANGED input

TestLineParser ==
    /\ ~Parsed("lines")
    /\ Done(parse_diff_lines(<<input>>, setMode(NewModel, "FLAT")),
            "parse_diff_lines", <<>>, None, <<input>>)
    /\ results' = Append(results, [parser |-> "lines", batch |-> <<input>>,
                                   exc |-> last'.exc,
                                   flat |-> FlatRows(nodes', flattened')])
    /\ UNCHANGED input

NextPayload == TestJsonParser \/ TestLineParser

SpecPayload == InitPayload /\ [][NextPayload]_vars

-----------------------------------------------------------------------------
(* One record of the json output with several change facts, parsed into a  *)
(* model of its own as test_archive_diff_json_parser does.  input is the   *)
(* record.                                                                 *)

MaxFacts == 2

\* the change facts of the json output of borg diff
ChangeFacts ==
    {[type |-> "added", size |-> 20],
     [type |-> "removed", size |-> 20],
     [type |-> "added link"],
     [type |-> "removed directory"],
     [type |-> "changed link"],
     [type |-> "modified"],
     [type |-> "modified", added |-> 5, removed |-> 7],
     [type |-> "mode", old_mode |-> "-rw-rw-rw-", new_mode |-> "-rw-r--r--"],
     [type |-> "owner", old_user |-> "user", old_group |-> "user",
      new_user |-> "nfsnobody", new_group |-> "nfsnobody"]}

\* the records with up to MaxFacts facts for one path, in any order
FactRecords ==
    {[path |-> <<"a">>, changes |-> c] :
        c \in UNION {[1..n -> ChangeFacts] : n \in 1..MaxFacts}}

InitFacts ==
    /\ nodes = NewModel.nodes
    /\ flattened = NewModel.flattened
    /\ mode = NewModel.mode
    /\ last = NoCall
    /\ nOps = 0
    /\ input \in FactRecords
    /\ results = <<>>
    /\ proxy = NewProxy

TestFactsParser ==
    /\ ~Parsed("json")
    /\ Done(parse_diff_json(<<input>>, setMode(NewModel, "FLAT")),
            "parse_diff_json", <<>>, None, <<input>>)
    /\ results' = Append(results, [parser |-> "json", batch |-> <<input>>,
                                   exc |-> last'.exc,
                                   flat |-> FlatRows(nodes', flattened')])
    /\ UNCHANGED input

NextFacts == TestFactsParser

SpecFacts == InitFacts /\ [][NextFacts]_vars

-----------------------------------------------------------------------------
(* A batch of lines or of records with clauses the parsers do not know,    *)
(* handed to parse_diff_lines or parse_diff_json with a new model, as the  *)
(* tests call them (parse_diff_lines([line], model)).  The batch is the    *)
(* list the parser gets: a line of it may hold a line break, which the     *)
(* split of the output in DiffResultDialog.__init__ never leaves in one.   *)

\* the units size_to_byte knows
Units == {"B", "kB", "KB", "MB", "GB", "TB"}

\* the lines of a textual diff:
\*   "added directory a"
\*   "+5 B -7 B a/b"
\*   "added  20 XB a"
\*   "removed  20 XB b"
\*   "+1 XB -1 B b"
\*   "+1 B -1 XB a/b"
\*   "a\nb"
\*   "added directory a/a\nb"
\*   "+5 B -7 B a\nb"
\*   "[-rw-rw-rw- -> -rw-r--r--] b"
\*   ""
ClauseLines ==
    {NoLine,
     [NoLine EXCEPT !.ar = "added", !.ar_type = "directory", !.path = <<"a">>],
     [NoLine EXCEPT !.modified = <<[m |-> 5, e |-> 0], "B", [m |-> 7, e |-> 0], "B">>,
                    !.path = <<"a", "b">>],
     [NoLine EXCEPT !.ar = "added", !.ar_type = "size",
                    !.size = <<[m |-> 20, e |-> 0], "XB">>, !.path = <<"a">>],
     [NoLine EXCEPT !.ar = "removed", !.ar_type = "size",
                    !.size = <<[m |-> 20, e |-> 0], "XB">>, !.path = <<"b">>],
     [NoLine EXCEPT !.modified = <<[m |-> 1, e |-> 0], "XB", [m |-> 1, e |-> 0], "B">>,
                    !.path = <<"b">>],
     [NoLine EXCEPT !.modified = <<[m |-> 1, e |-> 0], "B", [m |-> 1, e |-> 0], "XB">>,
                    !.path = <<"a", "b">>],
     [NoLine EXCEPT !.path = <<"a\nb">>],
     [NoLine EXCEPT !.ar = "added", !.ar_type = "directory", !.path = <<"a", "a\nb">>],
     [NoLine EXCEPT !.modified = <<[m |-> 5, e |-> 0], "B", [m |-> 7, e |-> 0], "B">>,
                    !.path = <<"a\nb">>],
     [NoLine EXCEPT !.mode = <<"-rw-rw-rw-", "-rw-r--r--">>, !.path = <<"b">>]}

\* the records of a json diff, two of them with a type borg does not print
\* and one without a change fact
TypeRecords ==
    {[path |-> <<"a">>, changes |-> <<[type |-> "added directory"]>>],
     [path |-> <<"a", "a">>, changes |-> <<>>],
     [path |-> <<"a", "b">>, changes |-> <<[type |-> "bogus"]>>],
     [path |-> <<"b">>, changes |-> <<[type |-> "modified", added |-> 5, removed |-> 7],
                                      [type |-> "renamed"]>>]}

ParseClauseLines(lines) ==
    /\ results = <<>>
    /\ Done(parse_diff_lines(lines, Model), "parse_diff_lines", <<>>, None, lines)
    /\ results' = Append(results, [parser |-> "lines", batch |-> lines,
                                   exc |-> last'.exc,
                                   flat |-> FlatRows(nodes', flattened')])
    /\ UNCHANGED input

ParseTypeRecords(diffs) ==
    /\ results = <<>>
    /\ Done(parse_diff_json(diffs, Model), "parse_diff_json", <<>>, None, diffs)
    /\ results' = Append(results, [parser |-> "json", batch |-> diffs,
                                   exc |-> last'.exc,
                                   flat |-> FlatRows(nodes', flattened')])
    /\ UNCHANGED input

NextClauses ==
    \/ \E lines \in Batches(ClauseLines) : ParseClauseLines(lines)
    \/ \E diffs \in Batches(TypeRecords) : ParseTypeRecords(diffs)

SpecClauses == Init /\ [][NextClauses]_vars

-----------------------------------------------------------------------------
(* size_to_byte applied to one size literal.  input is <<significand,      *)
(* unit>>; results holds what the call returned or raised.                 *)

MaxSignificand == 50

\* the size literals borg prints with up to one digit after the point, the
\* literal of the tests (77.8 kB) and a unit that does not exist; the number
\* of bytes stays below 2^31
SizeInputs ==
    {<<[m |-> m, e |-> e], unit>> :
        m \in 0..MaxSignificand, e \in {0, 1}, unit \in Units \cup {"XB"}}
    \cup {<<[m |-> 778, e |-> 1], "kB">>}

InitSize ==
    /\ nodes = NewModel.nodes
    /\ flattened = NewModel.flattened
    /\ mode = NewModel.mode
    /\ last = NoCall
    /\ nOps = 0
    /\ input \in {i \in SizeInputs :
                    \/ i[1].m = 0
                    \/ /\ UnitExponent(i[2]) - i[1].e <= 9
                       /\ i[1].m <= 2147483647 \div 10^(IF UnitExponent(i[2]) > i[1].e
                                                        THEN UnitExponent(i[2]) - i[1].e
                                                        ELSE 0)}
    /\ results = <<>>
    /\ proxy = NewProxy

SizeToByte ==
    /\ results = <<>>
    /\ results' = <<size_to_byte(input[1], input[2])>>
    /\ last' = [NoCall EXCEPT !.op = "size_to_byte", !.value = input,
                              !.exc = size_to_byte(input[1], input[2]).exc]
    /\ nOps' = nOps + 1
    /\ UNCHANGED <<nodes, flattened, mode, input, proxy>>

NextSize == SizeToByte

SpecSize == InitSize /\ [][NextSize]_vars

------------------------------------------------------------------------------
(* The comparison operators of ChangeType applied to pairs of members.     *)
(* results holds the comparisons made and what they returned or raised.    *)

MaxCompare == 2

CompareOps == {"<", "<=", ">", ">="}

CompareChanges(op, a, b) ==
    /\ Len(results) < MaxCompare
    /\ results' = Append(results, [op |-> op, a |-> a, b |-> b,
                                   exc |-> Compare(op, a, b).exc,
                                   ret |-> Compare(op, a, b).ret])
    /\ last' = [NoCall EXCEPT !.op = "compare", !.value = <<op, a, b>>,
                              !.exc = Compare(op, a, b).exc]
    /\ nOps' = nOps + 1
    /\ UNCHANGED <<nodes, flattened, mode, input, proxy>>

NextCompare ==
    \E op \in CompareOps, a \in ChangeTypes, b \in ChangeTypes :
        CompareChanges(op, a, b)

SpecCompare == Init /\ [][NextCompare]_vars

-----------------------------------------------------------------------------
(* Properties.                                                             *)

IsPrefix(p, q) == Len(p) <= Len(q) /\ SubSeq(q, 1, Len(p)) = p

\* a payload that reports a change of its own (not a placeholder's)
IsReal(data) == data # None /\ data.change_type # "NONE"

\* the sum of the sizes of the leaves below (or at) x that carry a real payload
RECURSIVE LeafSum(_, _), LeafSumOver(_, _)
LeafSum(ns, x) ==
    IF ns[x].children = <<>>
    THEN IF IsReal(ns[x].data) THEN ns[x].data.size ELSE 0
    ELSE LeafSumOver(ns, ns[x].children)

LeafSumOver(ns, ch) ==
    IF ch = <<>> THEN 0 ELSE LeafSum(ns, Head(ch)) + LeafSumOver(ns, Tail(ch))

\* the size of an item, 0 when it has no payload
SizeOf(ns, x) == IF ns[x].data = None THEN 0 ELSE ns[x].data.size

\* the item of the tree ns for a path, -1 when there is none
ItemAt(ns, path) == get_subpath(ns, root, path)

\* the size of the item of the tree ns for a path, 0 when there is none
SizeAt(ns, path) ==
    IF ItemAt(ns, path) = -1 THEN 0 ELSE SizeOf(ns, ItemAt(ns, path))

\* C1: after any sequence of addItem calls on a DiffTree, the size stored at
\* every non-root node that has descendants equals the sum of the sizes of
\* its descendant leaves that carry a real payload.
AncestorSizeIsLeafSum ==
    \A x \in TreeItems(nodes, root) \ {root} :
        nodes[x].children # <<>> =>
            nodes[x].data # None /\ nodes[x].data.size = LeafSum(nodes, x)

\* C2: each inserted size is added to every ancestor (root excluded) exactly
\* once.  addItem on a path that already has a node changes the size of no
\* node; addItem of a path that had no node and has one afterwards adds the
\* size of that node once to every ancestor (root excluded), gives it to the
\* ancestors made on the way and changes no other size.
SizeAddedExactlyOnce ==
    [][last'.op = "addItem" =>
        /\ \A x \in DOMAIN nodes :
            /\ x \in DOMAIN nodes'
            /\ SizeOf(nodes', x) =
                 SizeOf(nodes, x)
                   + (IF /\ ~last'.found
                         /\ x # root /\ x \in TreeItems(nodes, root)
                         /\ IsPrefix(nodes[x].path, last'.path)
                      THEN SizeAt(nodes', last'.path)
                      ELSE 0)
        /\ \A x \in DOMAIN nodes' \ DOMAIN nodes :
            SizeOf(nodes', x) = SizeAt(nodes', last'.path)
    ]_vars

\* C3: after removeItem(p) on an existing path p, in every display mode,
\* neither the node at p nor any of its descendants is reachable from the
\* root, and none of them remains in the flat list.
RemoveItemRemovesSubtree ==
    [][(last'.op = "removeItem" /\ last'.found) =>
        /\ \A x \in TreeItems(nodes', root) : ~IsPrefix(last'.path, nodes'[x].path)
        /\ \A k \in 1..Len(flattened') :
              ~IsPrefix(last'.path, nodes'[flattened'[k]].path)
    ]_vars

\* C4: a node whose path was directly reported with a real change never has
\* change NONE: after addItem(p, payload) with a real payload returns, the
\* node at p carries a payload whose change is not NONE, also when p was
\* first created as a placeholder.
ReportedChangeIsAttached ==
    [][(last'.op = "addItem" /\ last'.exc = "" /\ IsReal(last'.data)) =>
        /\ ItemAt(nodes', last'.path) # -1
        /\ IsReal(nodes'[ItemAt(nodes', last'.path)].data)
    ]_vars

\* the (path, payload) pairs the parse calls made so far reported
ItemOf(entry, k) ==
    IF entry.parser = "json" THEN json_item(entry.batch[k])
    ELSE line_item(entry.batch[k])

Reported ==
    UNION {{<<ItemOf(results[j], k).path, ItemOf(results[j], k).data>> :
                k \in 1..Len(results[j].batch)} : j \in 1..Len(results)}

ReportedPaths == {r[1] : r \in Reported}

\* C5: after parsing any batch of records into a DiffTree, in whatever order
\* the paths appear, FLAT-mode rowCount() equals the number of distinct
\* reported paths, each reported path is exactly one row whose node carries
\* a payload parsed for it, and ancestor placeholders are not rows.
FlatRowsAreReportedPaths ==
    (/\ results # <<>>
     /\ \A j \in 1..Len(results) : results[j].exc = ""
     /\ mode = "FLAT") =>
        /\ rowCount(Model, QModelIndex) = Cardinality(ReportedPaths)
        /\ \A p \in ReportedPaths :
              \E k \in 1..Len(flattened) :
                  /\ nodes[flattened[k]].path = p
                  /\ <<p, nodes[flattened[k]].data>> \in Reported
                  /\ \A k2 \in 1..Len(flattened) :
                        nodes[flattened[k2]].path = p => k2 = k
        /\ \A k \in 1..Len(flattened) : nodes[flattened[k]].path \in ReportedPaths

\* C6: if parse_diff_json or parse_diff_lines fails on some record of a
\* batch, none of the batch's records has been inserted: the tree and the
\* flat list are as they were before the call.
FailedParseInsertsNothing ==
    [][(last'.op \in {"parse_diff_json", "parse_diff_lines"} /\ last'.exc # "") =>
        nodes' = nodes /\ flattened' = flattened
    ]_vars

\* C7: removeItem(p) for a path p that has no node is a silent no-op: it
\* raises nothing, emits no signal, and leaves the tree and the flat list
\* unchanged, in every display mode.
RemoveMissingIsNoOp ==
    [][(last'.op = "removeItem" /\ ~last'.found) =>
        /\ last'.exc = ""
        /\ last'.signals = <<>>
        /\ nodes' = nodes /\ flattened' = flattened /\ mode' = mode
    ]_vars

\* a call of removeItem for a path whose parent has no node either, on a
\* model that has rows and is not in the initial display mode
RemoveOfMissingParent ==
    /\ last.op = "removeItem" /\ ~last.found
    /\ Len(last.path) >= 2
    /\ ~HasNode(SubSeq(last.path, 1, Len(last.path) - 1))
    /\ flattened # <<>>
    /\ mode # "TREE"

\* C8: indexPath(p) for a path p that has no node returns the invalid index
\* and does not raise, in every display mode and for paths of any length.
IndexPathMissReturnsInvalid ==
    (last.op = "indexPath" /\ ~last.found) =>
        last.exc = "" /\ ~last.ret.valid

\* C9: index(row, column, parent) with row outside 0..rowCount(parent)-1
\* returns the invalid index rather than raising, in every display mode.
IndexOutOfRangeReturnsInvalid ==
    (/\ last.op = "index"
     /\ \/ last.value.row < 0
        \/ last.value.row >= rowCount(Model, last.value.parent)) =>
        last.exc = "" /\ ~last.ret.valid

\* C10: for a textual line and a structured record of the same change,
\* parse_diff_lines and parse_diff_json insert the same path with an equal
\* DiffData: the flat lists of the two models hold the same (path, payload)
\* pairs.
ParsersAgree ==
    \A j, l \in 1..Len(results) :
        (results[j].parser = "json" /\ results[l].parser = "lines") =>
            /\ results[j].exc = "" /\ results[l].exc = ""
            /\ results[j].flat = results[l].flat

\* the number of bytes of a size literal as a parser sees it: the json output
\* carries the number, the textual output is converted by size_to_byte
BytesSeen(parser, sig, unit) ==
    IF parser = "json" THEN Bytes(sig, unit) ELSE size_to_byte(sig, unit).bytes

\* the size a change stands for: added - removed for modified contents, the
\* size for an added file, its negation for a removed file, 0 otherwise
ExpectedSize(parser, line) ==
    IF line.ar # "" /\ line.ar_type = "size"
    THEN IF line.ar = "added"
         THEN BytesSeen(parser, line.size[1], line.size[2])
         ELSE 0 - BytesSeen(parser, line.size[1], line.size[2])
    ELSE IF line.modified # <<>>
    THEN BytesSeen(parser, line.modified[1], line.modified[2])
            - BytesSeen(parser, line.modified[3], line.modified[4])
    ELSE 0

\* C11: in both parsers the size of the payload made for a change is
\* added - removed for modified contents, +size for an added file, -size for
\* a removed file and 0 otherwise.
SizeIsSignedDelta ==
    \A k \in 1..Len(results) :
        /\ results[k].exc = ""
        /\ Len(results[k].flat) = 1
        /\ results[k].flat[1][2].size = ExpectedSize(results[k].parser, input)

\* the change types of the facts of a record
FactTypes(record) == {record.changes[i].type : i \in 1..Len(record.changes)}

\* C12: a record whose facts include an add/remove fact gets the change
\* ADDED/REMOVED of that fact whatever the order of its facts; a record
\* without one whose facts are mode, owner, changed link or modified gets
\* MODIFIED.
AddRemoveHasPriority ==
    \A k \in 1..Len(results) :
        /\ results[k].exc = ""
        /\ Len(results[k].flat) = 1
        /\ IF FactTypes(input) \cap AddedRemovedTypes = {}
           THEN results[k].flat[1][2].change_type = "MODIFIED"
           ELSE \E t \in FactTypes(input) \cap AddedRemovedTypes :
                    results[k].flat[1][2].change_type =
                        (IF t \in {"added", "added link", "added directory"}
                         THEN "ADDED" ELSE "REMOVED")

\* C13: addItem((p, None)) for a path that already has a node, as when the
\* same (path, None) is inserted a second time, is a no-op in every display
\* mode: the nodes with their children, payloads and sizes and the flat list
\* are as before.
ReAddWithoutPayloadIsNoOp ==
    [][(last'.op = "addItem" /\ last'.data = None /\ last'.found) =>
            (nodes' = nodes /\ flattened' = flattened /\ mode' = mode)
    ]_vars

\* addItem((p, None)) was called for a path whose node is a leaf carrying
\* the placeholder payload, as a first addItem((p, None)) leaves it, in a
\* tree of several nodes shown as simplified tree
SecondAddWithoutPayload ==
    /\ last.op = "addItem" /\ last.data = None /\ last.found /\ last.exc = ""
    /\ mode = "SIMPLIFIED_TREE"
    /\ ItemAt(nodes, last.path) # -1
    /\ nodes[ItemAt(nodes, last.path)].children = <<>>
    /\ nodes[ItemAt(nodes, last.path)].data # None
    /\ nodes[ItemAt(nodes, last.path)].data.change_type = "NONE"
    /\ Cardinality(TreeItems(nodes, root)) >= 3

\* C14: first write wins.  addItem((p, d)) with a payload d for a path whose
\* node already carries a payload leaves that payload (file type, change
\* type, size, mode change, owner change, modified) as it was.
FirstPayloadWins ==
    [][(/\ last'.op = "addItem" /\ last'.data # None
        /\ ItemAt(nodes, last'.path) # -1
        /\ nodes[ItemAt(nodes, last'.path)].data # None) =>
            /\ ItemAt(nodes', last'.path) = ItemAt(nodes, last'.path)
            /\ nodes'[ItemAt(nodes, last'.path)].data
                    = nodes[ItemAt(nodes, last'.path)].data
    ]_vars

\* addItem was called with a payload for a path whose node carries another
\* payload, one with a change of its own
SecondPayloadOffered ==
    /\ last.op = "addItem" /\ last.found /\ last.data # None
    /\ ItemAt(nodes, last.path) # -1
    /\ IsReal(nodes[ItemAt(nodes, last.path)].data)
    /\ nodes[ItemAt(nodes, last.path)].data.file_type # last.data.file_type
    /\ nodes[ItemAt(nodes, last.path)].data.change_type # last.data.change_type

\* C15: setMode(v) with v different from the current mode emits exactly one
\* model reset (beginResetModel then endResetModel) and changes only the
\* mode: the nodes with their payloads and sizes and the flat list are as
\* before; setMode with the current mode changes nothing and emits nothing.
SetModeChangesOnlyMode ==
    [][last'.op = "setMode" =>
        /\ nodes' = nodes
        /\ flattened' = flattened
        /\ last'.exc = ""
        /\ mode' = last'.value
        /\ last'.signals = (IF last'.value = mode THEN <<>>
                            ELSE << <<"beginResetModel">>, <<"endResetModel">> >>)
    ]_vars

\* setMode changed the mode of a model whose tree has nodes below the top
\* level and whose flat list is not empty
ModeSwitched ==
    /\ last.op = "setMode" /\ last.signals # <<>>
    /\ mode = "FLAT"
    /\ flattened # <<>>
    /\ \E x \in TreeItems(nodes, root) : Len(nodes[x].path) >= 2

\* the indexes of the top-level rows of the model
TopLevelIndexes(m) ==
    {index(m, row, column, QModelIndex).idx :
        row \in {r \in 0..MaxRow : /\ r < rowCount(m, QModelIndex)
                                   /\ index(m, r, 0, QModelIndex).exc = ""},
        column \in Columns} \ {QModelIndex}

\* C16: in every display mode parent() of the index of a top-level row
\* returns the invalid index without raising, and no index returned by
\* index(), parent() or indexPath() refers to the root node.
TopLevelParentIsInvalid ==
    /\ (last.op = "parent" /\ last.value.child \in TopLevelIndexes(Model)) =>
            last.exc = "" /\ ~last.ret.valid
    /\ (last.op \in {"index", "parent", "indexPath"} /\ last.ret.valid) =>
            last.ret.ptr # root

\* the item reached from x by descending into the single child for as long
\* as the item has exactly one child and carries no change of its own
RECURSIVE Descend(_, _)
Descend(ns, x) ==
    IF Len(ns[x].children) = 1
       /\ (ns[x].data = None \/ ns[x].data.change_type = "NONE")
    THEN Descend(ns, ns[x].children[1])
    ELSE x

\* the item an index stands for, the root for the invalid index
ItemOfIndex(idx) == IF idx.valid THEN idx.ptr ELSE root

\* C17: in SIMPLIFIED_TREE mode index(r, c, P) refers to the item reached
\* from the r-th child of the item of P by descending into the single child
\* for as long as the item has exactly one child and may be simplified; no
\* displayed row is a single-child item that may be simplified, and every
\* item whose change is not NONE is a row of its own.
SimplifiedRowsAreCombined ==
    mode = "SIMPLIFIED_TREE" =>
        /\ \A P \in {QModelIndex} \cup RowsBelow(Model, QModelIndex) :
             \A r \in 0..(rowCount(Model, P) - 1), c \in 0..(columnCount - 1) :
                /\ index(Model, r, c, P).exc = ""
                /\ index(Model, r, c, P).idx =
                      createIndex(r, c, Descend(nodes, nodes[ItemOfIndex(P)].children[r + 1]))
        /\ \A ix \in RowsBelow(Model, QModelIndex) :
             ~(/\ Len(nodes[ix.ptr].children) = 1
               /\ _simplify_filter(nodes, ix.ptr))
        /\ \A x \in TreeItems(nodes, root) :
             (nodes[x].data # None /\ nodes[x].data.change_type # "NONE") =>
                \E ix \in RowsBelow(Model, QModelIndex) : ix.ptr = x

\* a simplified tree where the first top-level row stands for an item two
\* levels down, itself an item with a change and a single child below it
CombinedRowShown ==
    /\ mode = "SIMPLIFIED_TREE"
    /\ index(Model, 0, 0, QModelIndex).exc = ""
    /\ Len(nodes[index(Model, 0, 0, QModelIndex).idx.ptr].path) = 2
    /\ Len(nodes[index(Model, 0, 0, QModelIndex).idx.ptr].children) = 1
    /\ Cardinality(RowsBelow(Model, QModelIndex)) >= 3

\* the path of the parent of a path
ParentPath(path) == SubSeq(path, 1, Len(path) - 1)

\* C18: in TREE mode every non-root node is visible at its natural depth:
\* indexPath(p) of an existing node returns an index whose row is the
\* position of the node among the children of its parent and whose item is
\* the node, parent(indexPath(p)) equals indexPath(parent of p) (the invalid
\* index for a top-level node), and rowCount(indexPath(p)) is the number of
\* children of the node.
TreeShowsEveryNode ==
    mode = "TREE" =>
        \A x \in TreeItems(nodes, root) \ {root} :
            /\ indexPath(Model, nodes[x].path).exc = ""
            /\ indexPath(Model, nodes[x].path).idx =
                  createIndex(ListIndex(nodes[nodes[x].parent].children, x), 0, x)
            /\ parentIndex(Model, indexPath(Model, nodes[x].path).idx).exc = ""
            /\ parentIndex(Model, indexPath(Model, nodes[x].path).idx).idx =
                  (IF Len(nodes[x].path) = 1 THEN QModelIndex
                   ELSE indexPath(Model, ParentPath(nodes[x].path)).idx)
            /\ rowCount(Model, indexPath(Model, nodes[x].path).idx)
                  = Len(nodes[x].children)

\* a tree in TREE mode with a node three levels down that is the second
\* child of its parent or has a sibling, and a node with two children
DeepTreeShown ==
    /\ mode = "TREE"
    /\ \E x \in TreeItems(nodes, root) :
            /\ Len(nodes[x].path) = 3
            /\ indexPath(Model, nodes[x].path).idx.ptr = x
    /\ \E x \in TreeItems(nodes, root) \ {root} :
            /\ Len(nodes[x].children) = 2
            /\ indexPath(Model, nodes[nodes[x].children[2]].path).idx.row = 1

\* the indexes of the rows of the flat list
FlatIndexes(m) == {index(m, r, 0, QModelIndex).idx : r \in 0..(Len(m.flattened) - 1)}

\* C19: in FLAT mode the rows are numbered 0..N-1 in the order the nodes
\* were created: a call never reorders the flat list and addItem puts new
\* nodes at its end, rowCount() is the length N of the flat list, index(r, 0)
\* refers to the r-th node of the flat list, indexPath(p) of a node of the
\* flat list returns its row, rowCount of a valid index is 0 and parent() of
\* an index is invalid.
FlatRowsInCreationOrder ==
    [][/\ last'.op = "addItem" => IsPrefix(flattened, flattened')
       /\ \A j, k \in 1..Len(flattened) :
            (j < k /\ flattened[j] # flattened[k]) =>
                \A j2, k2 \in 1..Len(flattened') :
                    (flattened'[j2] = flattened[j] /\ flattened'[k2] = flattened[k])
                        => j2 < k2
       /\ mode' = "FLAT" =>
            /\ rowCount(Model', QModelIndex) = Len(flattened')
            /\ \A r \in 0..(Len(flattened') - 1) :
                /\ index(Model', r, 0, QModelIndex) =
                      [exc |-> "", idx |-> createIndex(r, 0, flattened'[r + 1])]
                /\ indexPath(Model', nodes'[flattened'[r + 1]].path) =
                      [exc |-> "", idx |-> createIndex(r, 0, flattened'[r + 1])]
            /\ \A ix \in FlatIndexes(Model') :
                /\ rowCount(Model', ix) = 0
                /\ parentIndex(Model', ix) = [exc |-> "", idx |-> QModelIndex]
    ]_vars

\* the prefix of k parts of a path
Prefix(path, k) == SubSeq(path, 1, k)

\* the payload of a placeholder: DiffData(FileType.DIRECTORY, ChangeType.NONE, size),
\* the size being what the nodes below have added to 0
IsPlaceholder(data) ==
    /\ data # None
    /\ data.file_type = "DIRECTORY" /\ data.change_type = "NONE"
    /\ data.mode_change = NoTuple /\ data.owner_change = NoTuple
    /\ data.modified = NoTuple

\* C20: addItem((p, d)) ensures that afterwards a node exists for every
\* prefix of p, each one a child of the node of the previous prefix; nodes
\* that existed are reused and no node is made twice; d is offered only to
\* the terminal node: the payload of an intermediate node that existed is
\* changed in its size at most, and every intermediate node made by the call
\* carries the placeholder payload.
AddItemMakesEveryPrefix ==
    [][last'.op = "addItem" =>
        /\ \A k \in 1..Len(last'.path) :
            /\ ItemAt(nodes', Prefix(last'.path, k)) # -1
            /\ nodes'[ItemAt(nodes', Prefix(last'.path, k))].parent
                    = ItemAt(nodes', Prefix(last'.path, k - 1))
            /\ ItemAt(nodes, Prefix(last'.path, k)) # -1 =>
                    ItemAt(nodes', Prefix(last'.path, k))
                        = ItemAt(nodes, Prefix(last'.path, k))
        /\ Cardinality(DOMAIN nodes' \ DOMAIN nodes) =
                Cardinality({k \in 1..Len(last'.path) :
                                ItemAt(nodes, Prefix(last'.path, k)) = -1})
        /\ \A k \in 1..(Len(last'.path) - 1) :
            IF ItemAt(nodes, Prefix(last'.path, k)) # -1
            THEN \/ nodes[ItemAt(nodes, Prefix(last'.path, k))].data = None
                 \/ /\ nodes'[ItemAt(nodes, Prefix(last'.path, k))].data # None
                    /\ [nodes'[ItemAt(nodes, Prefix(last'.path, k))].data
                            EXCEPT !.size = 0]
                         = [nodes[ItemAt(nodes, Prefix(last'.path, k))].data
                            EXCEPT !.size = 0]
            ELSE IsPlaceholder(nodes'[ItemAt(nodes', Prefix(last'.path, k))].data)
    ]_vars

\* C21: after any sequence of addItem and removeItem calls no two children
\* of one node have the same segment, the path of every non-root node is the
\* path of its parent extended by its segment, and the parent reference of
\* each child is the node whose children list holds it.
TreeIsWellFormed ==
    \A x \in TreeItems(nodes, root) :
        /\ \A j, k \in 1..Len(nodes[x].children) :
            j # k => nodes[nodes[x].children[j]].subpath
                        # nodes[nodes[x].children[k]].subpath
        /\ \A k \in 1..Len(nodes[x].children) :
            /\ nodes[nodes[x].children[k]].parent = x
            /\ nodes[nodes[x].children[k]].path
                    = Append(nodes[x].path, nodes[nodes[x].children[k]].subpath)

\* removeItem removed a node from a tree that still has a node three levels
\* down and a node with two children
RemovedFromDeepTree ==
    /\ last.op = "removeItem" /\ last.found /\ last.exc = ""
    /\ ~HasNode(last.path)
    /\ \E x \in TreeItems(nodes, root) : Len(nodes[x].path) = 3
    /\ \E x \in TreeItems(nodes, root) \ {root} : Len(nodes[x].children) = 2

\* the line carries a size literal with a unit size_to_byte does not know
HasUnknownUnit(line) ==
    \/ line.ar # "" /\ line.ar_type = "size" /\ line.size[2] \notin Units
    \/ line.modified # <<>>
        /\ (line.modified[2] \notin Units \/ line.modified[4] \notin Units)

\* the record carries a change fact of a type borg does not print
HasUnknownType(record) ==
    \E k \in 1..Len(record.changes) :
        record.changes[k].type \notin AddedRemovedTypes
            \cup {"modified", "changed link", "mode", "owner"}

\* C22: a size literal with an unknown unit, in an added/removed clause or
\* in a modified clause of a line, makes parse_diff_lines raise an error, and
\* a change fact of an unknown type makes parse_diff_json raise an error.
UnknownUnitOrTypeRaises ==
    \A k \in 1..Len(results) :
        /\ results[k].parser = "lines"
            /\ (\E j \in 1..Len(results[k].batch) : HasUnknownUnit(results[k].batch[j]))
            => results[k].exc = "Exception"
        /\ results[k].parser = "json"
            /\ (\E j \in 1..Len(results[k].batch) : HasUnknownType(results[k].batch[j]))
            => results[k].exc = "Exception"

\* the line holds a line break, which no alternative of re_changed_file
\* matches: pattern_path is `.*`, and the path ends the line
HasLineBreak(line) == \E k \in 1..Len(line.path) : line.path[k] \in LineBreakParts

\* the lines of the batch before line j were parsed without an error
ParsedBefore(batch, j) == \A i \in 1..(j - 1) : line_item(batch[i]).exc = ""

\* C23: parse_diff_lines raises an error for a non-empty line that no
\* alternative of re_changed_file matches, and inserts nothing for that line: the
\* items of the tree are those of the lines before it.
UnmatchedLineRaises ==
    \A k \in 1..Len(results) :
        results[k].parser = "lines" =>
            \A j \in 1..Len(results[k].batch) :
                HasLineBreak(results[k].batch[j])
                    /\ ParsedBefore(results[k].batch, j)
                => /\ results[k].exc = "Exception"
                   /\ \A x \in TreeItems(nodes, root) \ {root} :
                        \E i \in 1..(j - 1) :
                            IsPrefix(nodes[x].path, results[k].batch[i].path)

\* a batch whose second line holds a line break was parsed: the first line
\* was inserted and the call raised
LineBreakAfterInsert ==
    /\ Len(results) = 1 /\ results[1].parser = "lines"
    /\ Len(results[1].batch) = 2
    /\ ~HasLineBreak(results[1].batch[1])
    /\ HasLineBreak(results[1].batch[2])
    /\ results[1].exc = "Exception"
    /\ HasNode(<<"a", "b">>)

\* a part of a path without the blanks around it
StripPart(part) == IF part = "b " THEN "b" ELSE part

\* the parts of the rest of a line without the whitespace around it
StripPath(path) == [k \in 1..Len(path) |-> StripPart(path[k])]

\* the line has one of the shapes of the tests: a changed link, an added or
\* removed directory, or a combination of modified, owner and mode clauses
TestedShape(line) ==
    \/ line.cl /\ line.ar = "" /\ line.modified = <<>> /\ line.owner = <<>>
        /\ line.mode = <<>>
    \/ line.ar # "" /\ line.ar_type = "directory"
    \/ line.ar = "" /\ ~line.cl
        /\ (line.modified # <<>> \/ line.owner # <<>> \/ line.mode # <<>>)

\* the payload of a line of a tested shape, clause by clause
ExpectedPayload(parser, line) ==
    IF line.cl THEN DiffData("LINK", "MODIFIED", 0, NoTuple, NoTuple, NoTuple)
    ELSE IF line.ar = "added"
    THEN DiffData("DIRECTORY", "ADDED", 0, NoTuple, NoTuple, NoTuple)
    ELSE IF line.ar = "removed"
    THEN DiffData("DIRECTORY", "REMOVED", 0, NoTuple, NoTuple, NoTuple)
    ELSE DiffData("FILE", "MODIFIED", ExpectedSize(parser, line),
                  IF line.mode # <<>> THEN line.mode ELSE NoTuple,
                  IF line.owner # <<>> THEN line.owner ELSE NoTuple,
                  IF line.modified # <<>>
                  THEN <<BytesSeen(parser, line.modified[1], line.modified[2]),
                         BytesSeen(parser, line.modified[3], line.modified[4])>>
                  ELSE NoTuple)

\* C24: for a change of a tested shape both parsers make the payload clause
\* by clause (LINK, MODIFIED, 0 for a changed link; DIRECTORY, ADDED or
\* REMOVED, 0 for a directory; FILE, MODIFIED with the mode, owner and byte
\* counts of the clauses present and size added - removed), and the path of
\* a line is the rest of the line without the whitespace around it.
PayloadClauseByClause ==
    \A k \in 1..Len(results) :
        TestedShape(input) =>
            /\ results[k].exc = ""
            /\ results[k].flat
                = << <<IF results[k].parser = "lines" THEN StripPath(input.path)
                       ELSE input.path,
                       ExpectedPayload(results[k].parser, input)>> >>

\* the lengths of the paths of the rows shown that are above the path
ShownAbove(path) ==
    {Len(nodes[idx.ptr].path) : idx \in {i \in RowsBelow(Model, QModelIndex) :
        /\ Len(nodes[i.ptr].path) < Len(path)
        /\ IsPrefix(nodes[i.ptr].path, path)}}

\* the length of the path of the nearest ancestor shown, 0 (the root) if
\* there is none
NearestShown(path) ==
    IF ShownAbove(path) = {} THEN 0
    ELSE CHOOSE n \in ShownAbove(path) : \A k \in ShownAbove(path) : k <= n

\* the sort key of the name column for an item
NameKey(item) ==
    IF mode = "FLAT" THEN nodes[item].path
    ELSE IF mode = "SIMPLIFIED_TREE"
    THEN nodes[item].path[NearestShown(nodes[item].path) + 1]
    ELSE nodes[item].path[Len(nodes[item].path)]

\* C25: for the name column choose_data gives the full path in FLAT mode,
\* the first segment of the path relative to the nearest ancestor shown (the
\* root for a top-level row) in SIMPLIFIED_TREE mode and the segment of the
\* item in TREE mode, for every row shown.
NameKeyIsDefined ==
    last.op = "choose_data" /\ last.value.index.column = 0 =>
        /\ last.exc = ""
        /\ last.ret = NameKey(last.value.index.ptr)

\* the sort key of a column for an item: the name key, the change with NONE
\* taken as MODIFIED, the size
ColumnKey(column, item) ==
    IF column = 0 THEN NameKey(item)
    ELSE IF column = 1
    THEN IF nodes[item].data.change_type = "NONE" THEN "MODIFIED"
         ELSE nodes[item].data.change_type
    ELSE nodes[item].data.size

\* C26: with folders on top, lessThan puts an item that has children before
\* a sibling that has none in the order shown, for AscendingOrder (x before
\* y when lessThan(x, y)) and for DescendingOrder (x before y when
\* lessThan(y, x)); two siblings that both have or both lack children are
\* compared by the key of the column.
FoldersComeFirst ==
    last.op = "lessThan" /\ proxy.folders_on_top =>
        /\ last.exc = ""
        /\ IF (nodes[last.value.left.ptr].children # <<>>)
                # (nodes[last.value.right.ptr].children # <<>>)
           THEN last.ret = IF proxy.sortOrder = "AscendingOrder"
                           THEN nodes[last.value.left.ptr].children # <<>>
                           ELSE nodes[last.value.right.ptr].children # <<>>
           ELSE last.ret = DataLess(Model, proxy.sortColumn,
                                    ColumnKey(proxy.sortColumn, last.value.left.ptr),
                                    ColumnKey(proxy.sortColumn, last.value.right.ptr))

\* the place of a change in the order of the change column: NONE stands
\* where MODIFIED stands
ReducedRank(ct) ==
    IF ct = "ADDED" THEN 1
    ELSE IF ct \in {"MODIFIED", "NONE"} THEN 2
    ELSE 3

\* C27: for the change column the key of an item is its change, MODIFIED
\* when the change is NONE, and the keys are ordered ADDED < MODIFIED <
\* REMOVED: an item NONE and an item MODIFIED are never less than one
\* another.
ChangeKeyIsReduced ==
    /\ last.op = "choose_data" /\ last.value.index.column = 1
        /\ nodes[last.value.index.ptr].data # None
        => /\ last.exc = ""
           /\ last.ret \in {"ADDED", "MODIFIED", "REMOVED"}
           /\ ReducedRank(last.ret)
                = ReducedRank(nodes[last.value.index.ptr].data.change_type)
    /\ last.op = "lessThan" /\ proxy.sortColumn = 1
        /\ nodes[last.value.left.ptr].data # None
        /\ nodes[last.value.right.ptr].data # None
        /\ ~(proxy.folders_on_top
             /\ (nodes[last.value.left.ptr].children # <<>>)
                    # (nodes[last.value.right.ptr].children # <<>>))
        => /\ last.exc = ""
           /\ last.ret = (ReducedRank(nodes[last.value.left.ptr].data.change_type)
                            < ReducedRank(nodes[last.value.right.ptr].data.change_type))

\* lessThan compared an item NONE with an item MODIFIED by the change column
NoneComparedWithModified ==
    /\ last.op = "lessThan" /\ proxy.sortColumn = 1 /\ ~proxy.folders_on_top
    /\ nodes[last.value.left.ptr].data # None
    /\ nodes[last.value.right.ptr].data # None
    /\ nodes[last.value.left.ptr].data.change_type = "NONE"
    /\ nodes[last.value.right.ptr].data.change_type = "MODIFIED"
    /\ last.exc = "" /\ last.ret = FALSE

\* C28: size_to_byte gives the number of bytes of a literal with the unit B,
\* kB or KB, MB, GB, TB with the multipliers 1, 10^3, 10^3, 10^6, 10^9,
\* 10^12: an integer, 77800 for ("77.8", "kB").
SizeToByteIsDecimal ==
    \A k \in 1..Len(results) :
        input[2] \in Units /\ input[1].e <= UnitExponent(input[2]) =>
            /\ results[k].exc = ""
            /\ results[k].bytes
                = (IF input[1].m = 0 THEN 0
                   ELSE input[1].m * 10^(UnitExponent(input[2]) - input[1].e))

\* C29: removeItem(p) on a path that has a node completes without an error
\* and removes the node, whatever the node is: also a placeholder, which is
\* not in the flat list, and a node with a child that is not in the flat
\* list.
RemoveItemCompletes ==
    last.op = "removeItem" /\ last.found =>
        /\ last.exc = ""
        /\ ~HasNode(last.path)

\* C30: the sizes stay sums after a removal: when the size of every item
\* with children is the sum of the sizes of its leaves with a real payload,
\* this is so again after removeItem has removed a subtree.
RemovalKeepsSizes ==
    [][(last'.op = "removeItem" /\ last'.found /\ last'.exc = ""
            /\ AncestorSizeIsLeafSum)
        => AncestorSizeIsLeafSum'
    ]_vars

\* C31: a record of the json output without a change fact gets the change
\* NONE and is therefore no row of the flat list.
EmptyRecordIsNone ==
    \A k \in 1..Len(results) :
        results[k].parser = "json" /\ results[k].exc = "" =>
            \A j \in 1..Len(results[k].batch) :
                results[k].batch[j].changes = <<>> =>
                    /\ HasNode(results[k].batch[j].path)
                    /\ nodes[ItemAt(nodes, results[k].batch[j].path)].data.change_type
                            = "NONE"
                    /\ \A r \in 1..Len(results[k].flat) :
                            results[k].flat[r][1] # results[k].batch[j].path

\* C32: keepFoldersOnTop(v) with a boolean v leaves the directories-first
\* setting equal to v; keepFoldersOnTop(False) turns it off again.
KeepFoldersOnTopSetsValue ==
    last.op = "keepFoldersOnTop" => proxy.folders_on_top = last.value.value

\* the model object with a listener connected that has read every row
Listened == [Model EXCEPT !.view = ShownView(Model)]

\* the listener of m holds the rows rowCount and index report
InSync(m) ==
    \A P \in ShownFrom(m, {root}) : ViewRows(m.view, P) = TrueRows(m, P)

\* C33: in SIMPLIFIED_TREE mode a listener that held the displayed rows before
\* an addItem and applies the signals of the call holds, under every
\* displayed parent, the rows that rowCount and index report afterwards.
ListenerFollowsAddItem ==
    [][mode = "SIMPLIFIED_TREE" /\ last'.op = "addItem" /\ nOps' = nOps + 1
         /\ last'.exc = ""
       => InSync(addItem(Listened, last'.path, last'.data))]_vars

\* the payload of every node and the nodes of the flat list, by path
Outcome(m) ==
    [payloads |-> {<<m.nodes[x].path, m.nodes[x].data>> : x \in DOMAIN m.nodes},
     flat |-> {m.nodes[m.flattened[k]].path : k \in 1..Len(m.flattened)},
     exc |-> m.exc]

\* addItem((p, d)) followed by addItem((q, e))
AddBoth(m, p, d, q, e) ==
    Try(addItem(m, p, d), LAMBDA m1 : addItem(m1, q, e))

\* C34: the insertion of two pairs with distinct new paths gives every node
\* the same payload and size, and the flat list the same nodes, in either
\* order; so the result of a set of insertions is that of any permutation.
InsertionsCommute ==
    \A p \in Paths, q \in Paths :
        p # q /\ ~HasNode(p) /\ ~HasNode(q) =>
            \A d \in Payloads, e \in Payloads :
                Outcome(AddBoth(Model, p, d, q, e))
                    = Outcome(AddBoth(Model, q, e, p, d))

\* C35: in SIMPLIFIED_TREE mode parent(index(r, 0, P)) has the row and the
\* node of P for every displayed row P and every r < rowCount(P), also where
\* the node of P ends a collapsed chain.
ParentOfIndexIsParent ==
    mode = "SIMPLIFIED_TREE" =>
        \A P \in RowsBelow(Model, QModelIndex) :
            \A r \in 0..(rowCount(Model, P) - 1) :
                /\ index(Model, r, 0, P).exc = ""
                /\ parentIndex(Model, index(Model, r, 0, P).idx)
                        = [exc |-> "", idx |-> P]

\* the tree and the flat list removeItem(p) leaves when it is called in the
\* display mode md
RemovedIn(md, p) ==
    Bind(removeItem(setMode(Model, md), p), LAMBDA m :
        [nodes |-> m.nodes, flattened |-> m.flattened])

\* C36: removeItem(p) on an existing path leaves the same tree and the same
\* flat list in whichever display mode it is called.
RemoveItemIgnoresMode ==
    \A p \in Paths :
        HasNode(p) =>
            \A md \in DisplayMode : RemovedIn(md, p) = RemovedIn("TREE", p)

\* removeItem has removed a top-level item from a model in FLAT mode and
\* left rows in the flat list
RemovedInFlatMode ==
    /\ last.op = "removeItem" /\ last.found /\ last.exc = ""
    /\ mode = "FLAT"
    /\ Len(last.path) = 1
    /\ Len(flattened) >= 1

\* the item x is above the item y in the tree
RECURSIVE IsAbove(_, _, _)
IsAbove(ns, x, y) ==
    /\ ns[y].parent # -1
    /\ (ns[y].parent = x \/ IsAbove(ns, x, ns[y].parent))

\* C37: after any addItem or removeItem every node of the flat list comes
\* after each of its ancestors in the flat list, and a removeItem that
\* completes has deleted the row of its target from the flat list.
FlatListAncestorsFirst ==
    [][/\ \A i \in 1..Len(flattened'), j \in 1..Len(flattened') :
            IsAbove(nodes', flattened'[i], flattened'[j]) => i < j
       /\ (last'.op = "removeItem" /\ nOps' = nOps + 1 /\ last'.exc = ""
           /\ HasNode(last'.path)) =>
            /\ ListIndex(flattened, ItemAt(nodes, last'.path)) # -1
            /\ flattened'
                 = SelectSeq(flattened,
                       LAMBDA x : /\ x # ItemAt(nodes, last'.path)
                                  /\ nodes[x].parent # ItemAt(nodes, last'.path))
      ]_vars

\* removeItem has removed an item with a child and a grandchild; the rows of
\* the item and the child are deleted, that of the grandchild is left
RemovedWithChildInFlatList ==
    /\ last.op = "removeItem" /\ last.found /\ last.exc = ""
    /\ ~HasNode(last.path)
    /\ \E k \in 1..Len(flattened) :
        /\ Len(nodes[flattened[k]].path) = Len(last.path) + 2
        /\ SubSeq(nodes[flattened[k]].path, 1, Len(last.path)) = last.path

\* every beginRemoveRows of the signals is followed by its endRemoveRows
RECURSIVE RemovalsMatched(_, _)
RemovalsMatched(signals, open) ==
    IF signals = <<>> THEN ~open
    ELSE IF Head(signals)[1] = "beginRemoveRows"
    THEN ~open /\ RemovalsMatched(Tail(signals), TRUE)
    ELSE IF Head(signals)[1] = "endRemoveRows"
    THEN open /\ RemovalsMatched(Tail(signals), FALSE)
    ELSE RemovalsMatched(Tail(signals), open)

\* C38: a removeItem that raises leaves the tree and the flat list as they
\* were before the call, and every beginRemoveRows it emitted is matched by
\* an endRemoveRows.
FailedRemoveChangesNothing ==
    [][(last'.op = "removeItem" /\ nOps' = nOps + 1 /\ last'.exc # "") =>
            /\ nodes' = nodes
            /\ flattened' = flattened
            /\ RemovalsMatched(last'.signals, FALSE)]_vars

\* C39: after every addItem that completes every item of the tree but the
\* root has a payload and the root has none; no addItem raises the exception
\* "Item ... without data" of the size roll-up.
EveryItemHasData ==
    last.op = "addItem" =>
        /\ last.exc # "Exception"
        /\ last.exc = "" =>
            /\ nodes[root].data = None
            /\ \A x \in TreeItems(nodes, root) \ {root} : nodes[x].data # None

\* the relation of the operator op between two integers
IntRelation(op, x, y) ==
    IF op = "<" THEN x < y
    ELSE IF op = "<=" THEN x <= y
    ELSE IF op = ">" THEN x > y
    ELSE x >= y

\* C40: each of the four comparison operators of ChangeType returns, for
\* every pair of members, what the same relation gives for their values
\* NONE = 0 < ADDED = 1 < MODIFIED = 2 < REMOVED = 3, and raises nothing.
ComparisonsFollowValues ==
    \A k \in 1..Len(results) :
        /\ results[k].exc = ""
        /\ results[k].ret = IntRelation(results[k].op,
                                        ChangeValue(results[k].a),
                                        ChangeValue(results[k].b))

=============================================================================
